---- MODULE Spec2Model ----
(***************************************************************************)
(* Model of the travel-planner API: the activity-suitability scoring       *)
(* engine (ActivityRankingService), the rich city-id codec and the two     *)
(* adapters of OpenMeteoAPI, and the GraphQL resolvers over them.          *)
(*                                                                         *)
(* Numbers.  Temperatures, precipitation, wind speed, tolerances and raw   *)
(* scores are JavaScript doubles in the source.  The scoring engine is     *)
(* modelled in fixed point with one decimal digit: the integer v stands    *)
(* for v/10.  With whole-degree temperatures every intermediate value of   *)
(* scoreActivity is a multiple of 0.5, which doubles represent exactly, so *)
(* the fixed-point computation equals the floating-point one.              *)
(* Strings are TLA+ strings; Len, SubSeq and \o act on them character by   *)
(* character.                                                              *)
(***************************************************************************)
EXTENDS Integers, Sequences, FiniteSets, TLC

VARIABLES
    pc,        \* where the operation in progress stands
    call,      \* the operation in progress and its arguments
    outcome,   \* what the operation returned or threw
    requests,  \* outbound HTTP requests issued by the operation in progress
    response,  \* how the axios.get of the operation in progress settled
    console,   \* what the operation in progress wrote to the console
    configs,   \* the elements of the module-level array ACTIVITY_CONFIGS
    previous   \* what the same call returned when the caller made it before

vars == <<pc, call, outcome, requests, response, console, configs, previous>>

-----------------------------------------------------------------------------
(* Bounds of the model. *)

\* whole degrees below zero that maxTemp ranges over
TempBelow == 18
\* whole degrees above zero that maxTemp ranges over
TempAbove == 38
\* largest maxTemp - minTemp, in whole degrees
MaxSpread == 1
\* the top argument ranges over -MaxTop..MaxTop
MaxTop == 5
\* longest search input
MaxQueryLen == 3
\* longest coordinate part of a city id
MaxCoordLen == 5
\* longest city id made of separators only
MaxIdLen == 5
\* coordinates of the places upstream knows: steps away from the poles, the
\* date line and zero
MaxCoordStep == 2
\* most results in a geocoding reply
MaxReplyResults == 2
\* most days in a forecast reply
MaxDays == 2
\* the weather codes looked up range over -1..MaxWeatherCode
MaxWeatherCode == 100
\* inbound operations in progress at the same time
MaxOps == 2

-----------------------------------------------------------------------------
(* Generic helpers: Math.min, Math.max, Math.round, String.includes,       *)
(* Array.join, Array.slice, Array.sort.                                    *)

Min(a, b) == IF a <= b THEN a ELSE b

Max(a, b) == IF a >= b THEN a ELSE b

\* fixed-point image of a whole number
Fx(n) == 10 * n

\* Math.round of a fixed-point value: the nearest integer, halves go up
MathRound(x) == (x + 5) \div 10

\* s.includes(sub)
Includes(s, sub) ==
    \E i \in 1..(Len(s) - Len(sub) + 1) : SubSeq(s, i, i + Len(sub) - 1) = sub

RECURSIVE Join(_, _)
\* parts.join(sep)
Join(parts, sep) ==
    IF parts = <<>> THEN ""
    ELSE IF Len(parts) = 1 THEN parts[1]
    ELSE parts[1] \o sep \o Join(Tail(parts), sep)

\* slice with the end index taken as inclusive
Slice0_Inclusive(arr, end) ==
    LET n == Len(arr)
        e == IF end < 0 THEN Max(n + end + 1, 0) ELSE Min(end + 1, n)
    IN  SubSeq(arr, 1, e)

\* arr.slice(0, end): a negative end counts from the back of the array
Slice0(arr, end) ==
    LET n == Len(arr)
        e == IF end < 0 THEN Max(n + end, 0) ELSE Min(end, n)
    IN  SubSeq(arr, 1, e)

\* the comparator of the sort: (a, b) => b.suitabilityScore - a.suitabilityScore
ByScoreDescending(a, b) == b.suitabilityScore - a.suitabilityScore

RECURSIVE InsertSorted_TiesFirst(_, _)
\* an insertion that puts x before the elements equal to it
InsertSorted_TiesFirst(sorted, x) ==
    IF sorted = <<>> THEN <<x>>
    ELSE IF ByScoreDescending(Head(sorted), x) < 0
         THEN <<Head(sorted)>> \o InsertSorted_TiesFirst(Tail(sorted), x)
         ELSE <<x>> \o sorted

RECURSIVE InsertSorted(_, _)
\* x put into the sorted list after every element that does not have to
\* follow it (comparator <= 0): equal elements keep their order
InsertSorted(sorted, x) ==
    IF sorted = <<>> THEN <<x>>
    ELSE IF ByScoreDescending(Head(sorted), x) <= 0
         THEN <<Head(sorted)>> \o InsertSorted(Tail(sorted), x)
         ELSE <<x>> \o sorted

RECURSIVE SortPrefix(_, _)
SortPrefix(arr, n) ==
    IF n = 0 THEN <<>>
    ELSE InsertSorted(SortPrefix(arr, n - 1), arr[n])

\* the sort left out
ArraySort_Unsorted(arr) == arr

\* activities.sort(ByScoreDescending): Array.prototype.sort is a stable sort
ArraySort(arr) == SortPrefix(arr, Len(arr))

-----------------------------------------------------------------------------
(* Activity Profile Table.  rainTolerance and windPreference in tenths.    *)

ACTIVITY_CONFIGS == <<
    [name |-> "skiing", idealTempMin |-> Fx(-10), idealTempMax |-> Fx(2),
     rainTolerance |-> 1, windPreference |-> 2],
    [name |-> "surfing", idealTempMin |-> Fx(18), idealTempMax |-> Fx(28),
     rainTolerance |-> 7, windPreference |-> 8],
    [name |-> "indoor_sightseeing", idealTempMin |-> Fx(10), idealTempMax |-> Fx(30),
     rainTolerance |-> 10, windPreference |-> 5],
    [name |-> "outdoor_sightseeing", idealTempMin |-> Fx(15), idealTempMax |-> Fx(25),
     rainTolerance |-> 1, windPreference |-> 3] >>

(* The constants of ActivityRankingService, in the units of the model.     *)
BASE_SCORE == 50
IDEAL_TEMP_BONUS == 30
COLD_PENALTY_MULTIPLIER == 5
WARM_PENALTY_MULTIPLIER == 5
MAX_TEMP_PENALTY == 30
RAIN_IMPACT_MULTIPLIER == 20
HIGH_TOLERANCE_BONUS == 10
LOW_TOLERANCE_BONUS == 10
\* 0.8, in tenths
HIGH_TOLERANCE_THRESHOLD == 8
\* 0.3, in tenths
LOW_TOLERANCE_THRESHOLD == 3
WIND_IMPACT_MULTIPLIER == 15
\* 7.5, in tenths
WIND_OFFSET == 75
\* 0.6, in tenths
HIGH_PREFERENCE_THRESHOLD == 6
\* 0.4, in tenths
LOW_PREFERENCE_THRESHOLD == 4
EXTREME_WEATHER_BONUS == 15
COLD_THRESHOLD == 10
HOT_THRESHOLD == 30
RAIN_THRESHOLD == 1
WIND_THRESHOLD == 20
MIN_SCORE == 0
MAX_SCORE == 100
\* the default value of the parameter top
DEFAULT_TOP == 1

-----------------------------------------------------------------------------
(* ActivityRankingService.scoreActivity, statement by statement.  Each     *)
(* step takes and returns [score, reasons]; score is fixed point.          *)

\* a temperature step that gives no reason for an ideal temperature
TemperatureStep_SilentWhenIdeal(st, config, avgTemp) ==
    IF avgTemp >= config.idealTempMin /\ avgTemp <= config.idealTempMax
    THEN [score |-> st.score + 300, reasons |-> st.reasons]
    ELSE [score |-> st.score - 300,
          reasons |-> Append(st.reasons, IF avgTemp < config.idealTempMin
                                         THEN "too cold" ELSE "too warm")]

TemperatureStep(st, config, avgTemp) ==
    IF avgTemp >= config.idealTempMin /\ avgTemp <= config.idealTempMax
    THEN [score |-> st.score + Fx(IDEAL_TEMP_BONUS),
          reasons |-> Append(st.reasons, "ideal temperature")]
    ELSE IF avgTemp < config.idealTempMin
    THEN LET penalty == Min(Fx(MAX_TEMP_PENALTY),
                            (config.idealTempMin - avgTemp) * COLD_PENALTY_MULTIPLIER)
         IN  [score |-> st.score - penalty,
              reasons |-> Append(st.reasons, "too cold")]
    ELSE LET penalty == Min(Fx(MAX_TEMP_PENALTY),
                            (avgTemp - config.idealTempMax) * WARM_PENALTY_MULTIPLIER)
         IN  [score |-> st.score - penalty,
              reasons |-> Append(st.reasons, "too warm")]

\* the rain step without the bonus of the rain-loving profiles
RainStep_NoBonus(st, config, hasRain) ==
    IF hasRain
    THEN [score |-> st.score - (10 - config.rainTolerance) * RAIN_IMPACT_MULTIPLIER,
          reasons |-> IF config.rainTolerance > HIGH_TOLERANCE_THRESHOLD
                      THEN Append(st.reasons, "rain makes it more appealing")
                      ELSE IF config.rainTolerance < LOW_TOLERANCE_THRESHOLD
                      THEN Append(st.reasons, "rain not ideal")
                      ELSE st.reasons]
    ELSE IF config.rainTolerance < LOW_TOLERANCE_THRESHOLD
         THEN [score |-> st.score + Fx(LOW_TOLERANCE_BONUS),
               reasons |-> Append(st.reasons, "no rain")]
         ELSE st

\* a rain step that takes the tolerance for the share of the impact
RainStep_ToleranceAsImpact(st, config, hasRain) ==
    IF hasRain
    THEN [score |-> st.score - config.rainTolerance * 20
                        + (IF config.rainTolerance > 8 THEN 100 ELSE 0),
          reasons |-> Append(st.reasons, "rain")]
    ELSE st

RainStep(st, config, hasRain) ==
    IF hasRain
    THEN LET rainImpact == (10 - config.rainTolerance) * RAIN_IMPACT_MULTIPLIER
             s == st.score - rainImpact
         IN  IF config.rainTolerance > HIGH_TOLERANCE_THRESHOLD
             THEN [score |-> s + Fx(HIGH_TOLERANCE_BONUS),
                   reasons |-> Append(st.reasons, "rain makes it more appealing")]
             ELSE IF config.rainTolerance < LOW_TOLERANCE_THRESHOLD
             THEN [score |-> s, reasons |-> Append(st.reasons, "rain not ideal")]
             ELSE [score |-> s, reasons |-> st.reasons]
    ELSE IF config.rainTolerance < LOW_TOLERANCE_THRESHOLD
         THEN [score |-> st.score + Fx(LOW_TOLERANCE_BONUS),
               reasons |-> Append(st.reasons, "no rain")]
         ELSE st

\* a wind step that takes twice the offset
WindStep_DoubleOffset(st, config, isWindy) ==
    IF isWindy
    THEN [score |-> st.score + config.windPreference * 15 - 150,
          reasons |-> Append(st.reasons, "windy conditions")]
    ELSE st

WindStep(st, config, isWindy) ==
    IF isWindy
    THEN LET windImpact == config.windPreference * WIND_IMPACT_MULTIPLIER - WIND_OFFSET
             s == st.score + windImpact
         IN  IF config.windPreference > HIGH_PREFERENCE_THRESHOLD
             THEN [score |-> s, reasons |-> Append(st.reasons, "good wind conditions")]
             ELSE IF config.windPreference < LOW_PREFERENCE_THRESHOLD
             THEN [score |-> s, reasons |-> Append(st.reasons, "windy conditions")]
             ELSE [score |-> s, reasons |-> st.reasons]
    ELSE st

\* an indoor step that gives its bonus whatever the temperature
IndoorStep_AlwaysBonus(st, config, avgTemp) ==
    IF Includes(config.name, "indoor")
    THEN [score |-> st.score + 150,
          reasons |-> Append(st.reasons, "extreme weather favors indoor activities")]
    ELSE st

IndoorStep(st, config, avgTemp) ==
    IF Includes(config.name, "indoor")
       /\ (avgTemp < Fx(COLD_THRESHOLD) \/ avgTemp > Fx(HOT_THRESHOLD))
    THEN [score |-> st.score + Fx(EXTREME_WEATHER_BONUS),
          reasons |-> Append(st.reasons, "extreme weather favors indoor activities")]
    ELSE st

\* the clamp without its lower end
ClampScore_NoFloor(rounded) == Min(MAX_SCORE, rounded)

\* Math.max(MIN_SCORE, Math.min(MAX_SCORE, rounded))
ClampScore(rounded) == Max(MIN_SCORE, Min(MAX_SCORE, rounded))

\* reasons.join(', ') || 'standard conditions'
ReasoningText(reasons) ==
    LET joined == Join(reasons, ", ")
    IN  IF joined = "" THEN "standard conditions" ELSE joined

scoreActivity(config, avgTemp, hasRain, isWindy, precipitation, windSpeed) ==
    LET s0 == [score |-> Fx(BASE_SCORE), reasons |-> <<>>]
        s1 == TemperatureStep(s0, config, avgTemp)
        s2 == RainStep(s1, config, hasRain)
        s3 == WindStep(s2, config, isWindy)
        s4 == IndoorStep(s3, config, avgTemp)
    IN  [name |-> config.name,
         suitabilityScore |-> ClampScore(MathRound(s4.score)),
         reasoning |-> ReasoningText(s4.reasons)]

\* the scored activities cut to length and never sorted
rankActivitiesOver_NoSort(table, forecast, top) ==
    LET avgTemp == (forecast.maxTemp + forecast.minTemp) \div 2
        activities == [i \in 1..Len(table) |->
                          scoreActivity(table[i], avgTemp, forecast.precipitation > 10,
                                        forecast.windSpeed > 200, forecast.precipitation,
                                        forecast.windSpeed)]
    IN  Slice0(activities, IF top = <<>> THEN 1 ELSE top[1])

\* the body of rankActivitiesForDay over the elements the table holds when
\* the call is made; top is <<>> when the argument is omitted, <<n>> otherwise
rankActivitiesOver(table, forecast, top) ==
    LET n == IF top = <<>> THEN DEFAULT_TOP ELSE top[1]
        avgTemp == (forecast.maxTemp + forecast.minTemp) \div 2
        hasRain == forecast.precipitation > Fx(RAIN_THRESHOLD)
        isWindy == forecast.windSpeed > Fx(WIND_THRESHOLD)
        activities == [i \in 1..Len(table) |->
                          scoreActivity(table[i], avgTemp, hasRain, isWindy,
                                        forecast.precipitation, forecast.windSpeed)]
    IN  Slice0(ArraySort(activities), n)

\* a service that keeps its list of scored activities from one call to the
\* next and scores into it
rankActivitiesForDay_KeepsList(forecast, top) ==
    LET n == IF top = <<>> THEN 1 ELSE top[1]
        kept == IF outcome.kind = "value" /\ call.op = "rankActivitiesForDay"
                THEN outcome.value ELSE <<>>
        avgTemp == (forecast.maxTemp + forecast.minTemp) \div 2
        fresh == [i \in 1..Len(configs) |->
                     scoreActivity(configs[i], avgTemp, forecast.precipitation > 10,
                                   forecast.windSpeed > 200, forecast.precipitation,
                                   forecast.windSpeed)]
    IN  Slice0(ArraySort(kept \o fresh), n)

\* rankActivitiesForDay reads the module-level table
rankActivitiesForDay(forecast, top) == rankActivitiesOver(configs, forecast, top)

-----------------------------------------------------------------------------
(* Strings and numbers of the city-id codec.                               *)
(*                                                                         *)
(* A coordinate is a JavaScript number.  It is modelled exactly as a       *)
(* decimal [m, k] standing for m / 10^k, kept normalised (k = 0 or m not a *)
(* multiple of 10); NaN is the value with k = -1 and the two infinities    *)
(* are the values with k = -2.  The strings of the model hold no exponent  *)
(* marker and not the word Infinity, so parseFloat sees an optional sign,  *)
(* digits, and an optional '.' followed by digits.                         *)

NaN == [m |-> 0, k |-> -1]

Infinity == [m |-> 1, k |-> -2]

NegativeInfinity == [m |-> -1, k |-> -2]

isNaN(x) == x.k = -1

\* Number.isFinite
isFinite(x) == x.k >= 0

RECURSIVE Pow10(_)
Pow10(k) == IF k = 0 THEN 1 ELSE 10 * Pow10(k - 1)

RECURSIVE Normalise(_, _)
\* the decimal m / 10^k without trailing zeros in its fraction
Normalise(m, k) ==
    IF k > 0 /\ m % 10 = 0 THEN Normalise(m \div 10, k - 1) ELSE [m |-> m, k |-> k]

\* a whole number as a JavaScript number
Num(n) == [m |-> n, k |-> 0]

\* x <= n and x >= n for a number x that is not NaN and a whole number n
NumLeq(x, n) == IF isFinite(x) THEN x.m <= n * Pow10(x.k) ELSE x.m < 0

NumGeq(x, n) == IF isFinite(x) THEN x.m >= n * Pow10(x.k) ELSE x.m > 0

Digits == "0123456789"

IsDigit(c) == \E d \in 1..10 : SubSeq(Digits, d, d) = c

DigitValue(c) == (CHOOSE d \in 1..10 : SubSeq(Digits, d, d) = c) - 1

CharAt(s, i) == SubSeq(s, i, i)

\* ECMAScript white space, as far as the strings of the model hold any
IsWhiteSpace(c) == c = " "

RECURSIVE TrimStart(_)
TrimStart(s) ==
    IF Len(s) > 0 /\ IsWhiteSpace(CharAt(s, 1)) THEN TrimStart(SubSeq(s, 2, Len(s))) ELSE s

RECURSIVE TrimEnd(_)
TrimEnd(s) ==
    IF Len(s) > 0 /\ IsWhiteSpace(CharAt(s, Len(s)))
    THEN TrimEnd(SubSeq(s, 1, Len(s) - 1)) ELSE s

\* a trim that is left out
Trim_Nothing(s) == s

\* s.trim()
Trim(s) == TrimEnd(TrimStart(s))

RECURSIVE DigitRun(_, _)
\* how many digits s holds in a row from position i on
DigitRun(s, i) ==
    IF i <= Len(s) /\ IsDigit(CharAt(s, i)) THEN 1 + DigitRun(s, i + 1) ELSE 0

RECURSIVE DigitsToInt(_, _, _)
\* the value of the n digits of s that start at position i
DigitsToInt(s, i, n) ==
    IF n = 0 THEN 0
    ELSE DigitsToInt(s, i, n - 1) * 10 + DigitValue(CharAt(s, i + n - 1))

\* parseFloat(s): the value of the longest prefix of the trimmed string that
\* is a decimal literal, NaN when there is none
parseFloat(s) ==
    LET t == TrimStart(s)
        signed == Len(t) > 0 /\ CharAt(t, 1) \in {"+", "-"}
        negative == signed /\ CharAt(t, 1) = "-"
        i0 == IF signed THEN 2 ELSE 1
        intLen == DigitRun(t, i0)
        dot == i0 + intLen
        hasDot == dot <= Len(t) /\ CharAt(t, dot) = "."
        fracLen == IF hasDot THEN DigitRun(t, dot + 1) ELSE 0
        whole == DigitsToInt(t, i0, intLen)
        frac == DigitsToInt(t, dot + 1, fracLen)
        magnitude == whole * Pow10(fracLen) + frac
    IN  IF intLen = 0 /\ fracLen = 0 THEN NaN
        ELSE Normalise(IF negative THEN 0 - magnitude ELSE magnitude, fracLen)

RECURSIVE NatToString(_)
NatToString(n) ==
    IF n < 10 THEN CharAt(Digits, n + 1)
    ELSE NatToString(n \div 10) \o CharAt(Digits, (n % 10) + 1)

\* fraction digits without their leading zeros
PadFraction_NoLeadingZeros(f, k) == IF k = 0 THEN "" ELSE NatToString(f)

RECURSIVE PadFraction(_, _)
\* the fraction digits of f, k of them, with the leading zeros
PadFraction(f, k) ==
    IF k = 0 THEN "" ELSE PadFraction(f \div 10, k - 1) \o CharAt(Digits, (f % 10) + 1)

\* `${x}` for a number x: Number::toString in decimal notation
NumberToString(x) ==
    IF isNaN(x) THEN "NaN"
    ELSE IF ~isFinite(x) THEN (IF x.m < 0 THEN "-Infinity" ELSE "Infinity")
    ELSE LET a == IF x.m < 0 THEN 0 - x.m ELSE x.m
             sign == IF x.m < 0 THEN "-" ELSE ""
         IN  IF x.k = 0 THEN sign \o NatToString(a)
             ELSE sign \o NatToString(a \div Pow10(x.k)) \o "."
                       \o PadFraction(a % Pow10(x.k), x.k)

RECURSIVE SplitFrom(_, _, _, _)
\* the pieces of s from position i on, cur being the piece under way
SplitFrom(s, sep, i, cur) ==
    IF i > Len(s) THEN <<cur>>
    ELSE IF CharAt(s, i) = sep THEN <<cur>> \o SplitFrom(s, sep, i + 1, "")
    ELSE SplitFrom(s, sep, i + 1, cur \o CharAt(s, i))

\* a split that drops the empty pieces
Split_DropEmpty(s, sep) == SelectSeq(SplitFrom(s, sep, 1, ""), LAMBDA piece : piece # "")

\* s.split(sep) for a one-character separator
Split(s, sep) == SplitFrom(s, sep, 1, "")

-----------------------------------------------------------------------------
(* OpenMeteoAPI: the codec.  A function that throws returns the record     *)
(* [threw |-> TRUE, error |-> the OpenMeteoAPIError].                      *)

ERROR_CODES == [
    API_ERROR |-> [RATE_LIMIT_EXCEEDED |-> "RATE_LIMIT_EXCEEDED", TIMEOUT |-> "TIMEOUT",
                   UNKNOWN_ERROR |-> "UNKNOWN_ERROR"],
    INTERNAL_ERROR |-> [INTERNAL_SERVER_ERROR |-> "INTERNAL_SERVER_ERROR"],
    USER_ERROR |-> [INVALID_COORDINATES |-> "INVALID_COORDINATES",
                    BAD_USER_INPUT |-> "BAD_USER_INPUT"]]

\* new OpenMeteoAPIError(message, code)
OpenMeteoAPIError(message, code) ==
    [name |-> "OpenMeteoAPIError", message |-> message, code |-> code]

Throw(error) == [threw |-> TRUE, error |-> error]

Returned(value) == [threw |-> FALSE, value |-> value]

LAT_MIN == -90
LAT_MAX == 90
LON_MIN == -180
LON_MAX == 180

\* latitude checked against the range of the longitude
isValidCoordinate_OneRange(latitude, longitude) ==
    /\ ~isNaN(latitude)
    /\ ~isNaN(longitude)
    /\ NumGeq(latitude, LON_MIN)
    /\ NumLeq(latitude, LON_MAX)
    /\ NumGeq(longitude, LON_MIN)
    /\ NumLeq(longitude, LON_MAX)

isValidCoordinate(latitude, longitude) ==
    /\ ~isNaN(latitude)
    /\ ~isNaN(longitude)
    /\ NumGeq(latitude, LAT_MIN)
    /\ NumLeq(latitude, LAT_MAX)
    /\ NumGeq(longitude, LON_MIN)
    /\ NumLeq(longitude, LON_MAX)

\* the id searchCities builds: `${latitude},${longitude}:${name}:${country}`
CityIdOf(latitude, longitude, name, country) ==
    NumberToString(latitude) \o "," \o NumberToString(longitude)
        \o ":" \o name \o ":" \o country

parseCityId(cityId) ==
    LET parts == Split(cityId, ":")
    IN  IF Len(parts) # 3
        THEN Throw(OpenMeteoAPIError(
                 "Invalid city ID format. Expected format: \"lat,lon:name:country\"",
                 ERROR_CODES.USER_ERROR.INVALID_COORDINATES))
        ELSE
        LET coords == parts[1]
            name == parts[2]
            country == parts[3]
            cs == Split(coords, ",")
            \* [latStr, lonStr] = cs: lonStr is undefined when cs has one piece
            latStr == cs[1]
            lonFalsy == Len(cs) < 2 \/ cs[2] = ""
        IN  IF latStr = "" \/ lonFalsy
            THEN Throw(OpenMeteoAPIError(
                     "Invalid coordinates in city ID. Expected format: \"lat,lon\"",
                     ERROR_CODES.USER_ERROR.INVALID_COORDINATES))
            ELSE
            LET latitude == parseFloat(latStr)
                longitude == parseFloat(cs[2])
            IN  IF ~isValidCoordinate(latitude, longitude)
                THEN Throw(OpenMeteoAPIError(
                         "Invalid coordinates in city ID. Expected valid coordinates in the format: \"lat,lon\"",
                         ERROR_CODES.USER_ERROR.INVALID_COORDINATES))
                ELSE Returned([latitude |-> latitude, longitude |-> longitude,
                               name |-> name, country |-> country])

-----------------------------------------------------------------------------
(* OpenMeteoAPI: the geocoding adapter.                                    *)

GEOCODING_BASE_URL == "https://geocoding-api.open-meteo.com/v1"
WEATHER_BASE_URL == "https://api.open-meteo.com/v1"
REQUEST_TIMEOUT_MS == 10000
MAX_RESULTS == 10
FORECAST_DAYS == 7

\* a filter that lets every feature code of class P through
PopulatedPlaceCodes_ClassP ==
    {"PPLA", "PPLA2", "PPLA3", "PPLA4", "PPLC", "PPL", "PPLF", "PPLG", "PPLL", "PPLR",
     "PPLS", "PPLW", "PPLX", "PPLQ", "PPLH", "PPLCH", "PPLA5", "STLMT"}

\* the populated-place feature codes searchCities keeps
PopulatedPlaceCodes ==
    {"PPLA", "PPLA2", "PPLA3", "PPLA4", "PPLC", "PPL", "PPLF", "PPLG", "PPLL", "PPLR",
     "PPLS", "PPLW"}

\* the City a geocoding result is mapped to
CityOfResult(result) ==
    [id |-> CityIdOf(result.latitude, result.longitude, result.name, result.country),
     name |-> result.name,
     country |-> result.country,
     latitude |-> result.latitude,
     longitude |-> result.longitude]

RECURSIVE MapCities(_)
MapCities(results) ==
    IF results = <<>> THEN <<>>
    ELSE <<CityOfResult(Head(results))>> \o MapCities(Tail(results))

\* searchCities up to its await: the guard on the query, then axios.get
searchCitiesBegin(query) ==
    IF query = "" \/ Len(Trim(query)) < 2
    THEN Throw(OpenMeteoAPIError("Query must be at least 2 characters long",
                                 ERROR_CODES.USER_ERROR.BAD_USER_INPUT))
    ELSE Returned([url |-> GEOCODING_BASE_URL \o "/search",
                   params |-> [name |-> Trim(query), count |-> MAX_RESULTS,
                               language |-> "en", format |-> "json"],
                   timeout |-> REQUEST_TIMEOUT_MS])

\* a catch block that does not look at the status of the response
ClassifyFailure_NoStatus(failure, timeoutWhat, failedWhat, unknownWhat) ==
    IF failure.isAxiosError /\ failure.code = "ECONNABORTED"
    THEN OpenMeteoAPIError("Request timeout while " \o timeoutWhat, "TIMEOUT")
    ELSE OpenMeteoAPIError("Unknown error occurred while " \o unknownWhat, "UNKNOWN_ERROR")

\* the catch block of both adapters; what names the operation in the messages
ClassifyFailure(failure, timeoutWhat, failedWhat, unknownWhat) ==
    IF failure.isAxiosError
    THEN IF failure.code = "ECONNABORTED"
         THEN OpenMeteoAPIError("Request timeout while " \o timeoutWhat,
                                ERROR_CODES.API_ERROR.TIMEOUT)
         ELSE IF failure.hasResponse /\ failure.status = 429
         THEN OpenMeteoAPIError("Rate limit exceeded. Please try again later.",
                                ERROR_CODES.API_ERROR.RATE_LIMIT_EXCEEDED)
         ELSE OpenMeteoAPIError(
                  "Failed to " \o failedWhat \o ": "
                      \o (IF failure.hasResponse /\ failure.statusText # ""
                          THEN failure.statusText ELSE failure.message),
                  ERROR_CODES.API_ERROR.UNKNOWN_ERROR)
    ELSE OpenMeteoAPIError("Unknown error occurred while " \o unknownWhat,
                           ERROR_CODES.API_ERROR.UNKNOWN_ERROR)

\* what `response.data.results` and the like throw on a body that is null
TypeErrorOf(message) ==
    [isAxiosError |-> FALSE, code |-> "", hasResponse |-> FALSE, status |-> 0,
     statusText |-> "", message |-> message]

\* an adapter that reads results without looking whether it is there
searchCitiesResume_NoResultsCheck(reply) ==
    IF reply.kind = "rejected" \/ ~reply.hasData \/ ~reply.hasResults
    THEN Throw(OpenMeteoAPIError("Unknown error occurred while searching cities",
                                 "UNKNOWN_ERROR"))
    ELSE Returned(MapCities(SelectSeq(reply.results,
                                      LAMBDA r : r.feature_code \in PopulatedPlaceCodes)))

\* searchCities from the reply of axios.get on
searchCitiesResume(reply) ==
    IF reply.kind = "rejected"
    THEN Throw(ClassifyFailure(reply.failure, "searching cities", "search cities",
                               "searching cities"))
    ELSE IF ~reply.hasData
    THEN Throw(ClassifyFailure(TypeErrorOf("Cannot read properties of null"),
                               "searching cities", "search cities", "searching cities"))
    ELSE IF ~reply.hasResults THEN Returned(<<>>)
    ELSE LET filteredResults ==
                 SelectSeq(reply.results, LAMBDA r : r.feature_code \in PopulatedPlaceCodes)
         IN  Returned(MapCities(filteredResults))

-----------------------------------------------------------------------------
(* OpenMeteoAPI: the forecast adapter.  Forecast values are fixed point.   *)

WEATHER_CODES == [c \in {0, 1, 2, 3, 45, 48, 51, 53, 55, 56, 57, 61, 63, 65, 66, 67, 71,
                         73, 75, 77, 80, 81, 82, 85, 86, 95, 96, 99} |->
    CASE c = 0 -> "Clear sky" [] c = 1 -> "Mainly clear" [] c = 2 -> "Partly cloudy"
      [] c = 3 -> "Overcast" [] c = 45 -> "Fog" [] c = 48 -> "Depositing rime fog"
      [] c = 51 -> "Light drizzle" [] c = 53 -> "Moderate drizzle"
      [] c = 55 -> "Dense drizzle" [] c = 56 -> "Light freezing drizzle"
      [] c = 57 -> "Dense freezing drizzle" [] c = 61 -> "Slight rain"
      [] c = 63 -> "Moderate rain" [] c = 65 -> "Heavy rain"
      [] c = 66 -> "Light freezing rain" [] c = 67 -> "Heavy freezing rain"
      [] c = 71 -> "Slight snow fall" [] c = 73 -> "Moderate snow fall"
      [] c = 75 -> "Heavy snow fall" [] c = 77 -> "Snow grains"
      [] c = 80 -> "Slight rain showers" [] c = 81 -> "Moderate rain showers"
      [] c = 82 -> "Violent rain showers" [] c = 85 -> "Slight snow showers"
      [] c = 86 -> "Heavy snow showers" [] c = 95 -> "Thunderstorm"
      [] c = 96 -> "Thunderstorm with slight hail"
      [] c = 99 -> "Thunderstorm with heavy hail"]

\* a lookup that takes the code 0 for no code at all
getWeatherCondition_ZeroIsUnknown(code) ==
    IF code # 0 /\ code \in DOMAIN WEATHER_CODES THEN WEATHER_CODES[code]
    ELSE "Unknown condition (" \o NumberToString(Num(code)) \o ")"

\* WEATHER_CODES[code] || `Unknown condition (${code})`
getWeatherCondition(code) ==
    IF code \in DOMAIN WEATHER_CODES THEN WEATHER_CODES[code]
    ELSE "Unknown condition (" \o NumberToString(Num(code)) \o ")"

\* the request issued whatever the coordinates are
getWeatherDataBegin_NoGuard(latitude, longitude) ==
    Returned([url |-> "https://api.open-meteo.com/v1/forecast",
              params |-> [latitude |-> latitude, longitude |-> longitude]])

\* getWeatherData up to its await: the guard on the coordinates, then axios.get
getWeatherDataBegin(latitude, longitude) ==
    IF ~isValidCoordinate(latitude, longitude)
    THEN Throw(OpenMeteoAPIError("Invalid coordinates provided",
                                 ERROR_CODES.USER_ERROR.INVALID_COORDINATES))
    ELSE Returned([url |-> WEATHER_BASE_URL \o "/forecast",
                   params |-> [latitude |-> latitude, longitude |-> longitude,
                               current |-> "temperature_2m,relative_humidity_2m,precipitation,weather_code,wind_speed_10m",
                               daily |-> "weather_code,temperature_2m_max,temperature_2m_min,precipitation_sum,wind_speed_10m_max",
                               timezone |-> "auto", forecast_days |-> FORECAST_DAYS],
                   timeout |-> REQUEST_TIMEOUT_MS])

\* a day whose temperatures are read at the first index whatever the day is
ForecastDay_FirstTemperatures(daily, index) ==
    LET forecastDay == [date |-> daily.time[index],
                        maxTemp |-> daily.temperature_2m_max[1],
                        minTemp |-> daily.temperature_2m_min[1],
                        conditions |-> "Unknown condition",
                        precipitation |-> daily.precipitation_sum[index],
                        windSpeed |-> daily.wind_speed_10m_max[index]]
    IN  [date |-> forecastDay.date, maxTemp |-> forecastDay.maxTemp,
         minTemp |-> forecastDay.minTemp, conditions |-> forecastDay.conditions,
         precipitation |-> forecastDay.precipitation, windSpeed |-> forecastDay.windSpeed,
         activities |-> rankActivitiesForDay(forecastDay, <<1>>)]

\* the DailyForecast built from index i of the parallel arrays of daily
ForecastDay(daily, index) ==
    LET forecastDay == [date |-> daily.time[index],
                        maxTemp |-> daily.temperature_2m_max[index],
                        minTemp |-> daily.temperature_2m_min[index],
                        conditions |-> getWeatherCondition(daily.weather_code[index]),
                        precipitation |-> daily.precipitation_sum[index],
                        windSpeed |-> daily.wind_speed_10m_max[index]]
        activities == rankActivitiesForDay(forecastDay, <<1>>)
    IN  [date |-> forecastDay.date, maxTemp |-> forecastDay.maxTemp,
         minTemp |-> forecastDay.minTemp, conditions |-> forecastDay.conditions,
         precipitation |-> forecastDay.precipitation, windSpeed |-> forecastDay.windSpeed,
         activities |-> activities]

\* an adapter that answers with the days it has when the payload is malformed
getWeatherDataResume_Partial(reply) ==
    IF reply.kind = "rejected"
    THEN Throw(OpenMeteoAPIError("Failed to fetch weather data", "UNKNOWN_ERROR"))
    ELSE Returned([temperature |-> reply.current.temperature_2m,
                   conditions |-> "Unknown condition",
                   humidity |-> reply.current.relative_humidity_2m,
                   windSpeed |-> reply.current.wind_speed_10m,
                   precipitation |-> reply.current.precipitation,
                   forecast |-> <<>>])

\* getWeatherData from the reply of axios.get on
getWeatherDataResume(reply) ==
    IF reply.kind = "rejected"
    THEN Throw(ClassifyFailure(reply.failure, "fetching weather data", "fetch weather data",
                               "fetching weather data"))
    ELSE IF ~reply.hasDaily
    THEN Throw(ClassifyFailure(TypeErrorOf("Cannot read properties of undefined"),
                               "fetching weather data", "fetch weather data",
                               "fetching weather data"))
    ELSE LET current == reply.current
             daily == reply.daily
             forecast == [i \in 1..Len(daily.time) |-> ForecastDay(daily, i)]
         IN  Returned([temperature |-> current.temperature_2m,
                       conditions |-> getWeatherCondition(current.weather_code),
                       humidity |-> current.relative_humidity_2m,
                       windSpeed |-> current.wind_speed_10m,
                       precipitation |-> current.precipitation,
                       forecast |-> forecast])

-----------------------------------------------------------------------------
(* The resolvers.                                                          *)

\* new GraphQLError(message, {extensions})
GraphQLError(message, extensions) ==
    [name |-> "GraphQLError", message |-> message, extensions |-> extensions]

\* the catch block of the searchCities resolver
SearchCitiesCatch(error) ==
    IF error.name = "OpenMeteoAPIError"
    THEN GraphQLError(error.message,
                      [code |-> error.code, service |-> "OpenMeteo Geocoding API"])
    ELSE GraphQLError("Failed to search cities",
                      [code |-> ERROR_CODES.INTERNAL_ERROR.INTERNAL_SERVER_ERROR])

\* a catch block that wraps every error as internal
GetCityWeatherCatch_AlwaysInternal(error) ==
    [name |-> "GraphQLError", message |-> "Failed to get weather data",
     extensions |-> [code |-> "INTERNAL_SERVER_ERROR"]]

\* the catch block of the getCityWeather resolver
GetCityWeatherCatch(error) ==
    IF error.name = "GraphQLError" THEN error
    ELSE IF error.name = "OpenMeteoAPIError"
    THEN GraphQLError(error.message,
                      [code |-> error.code, service |-> "OpenMeteo Weather API"])
    ELSE GraphQLError("Failed to get weather data",
                      [code |-> ERROR_CODES.INTERNAL_ERROR.INTERNAL_SERVER_ERROR])

\* a city whose id is built again from the decoded values
CityOf_IdRebuilt(cityId, cityInfo) ==
    [id |-> CityIdOf(cityInfo.latitude, cityInfo.longitude, cityInfo.name,
                     cityInfo.country),
     name |-> cityInfo.name, country |-> cityInfo.country,
     latitude |-> cityInfo.latitude, longitude |-> cityInfo.longitude]

\* const city = { id: cityId, ...cityInfo }
CityOf(cityId, cityInfo) ==
    [id |-> cityId, name |-> cityInfo.name, country |-> cityInfo.country,
     latitude |-> cityInfo.latitude, longitude |-> cityInfo.longitude]

ConsoleLog(text, arg) == [level |-> "log", text |-> text, arg |-> arg]

ConsoleError(text, error) == [level |-> "error", text |-> text, arg |-> error]

-----------------------------------------------------------------------------
(* Inputs: the arguments of the operations and the replies of upstream.    *)

MaxTemps == {Fx(t) : t \in (0 - TempBelow)..TempAbove}

Precipitations == {0, Fx(RAIN_THRESHOLD), Fx(RAIN_THRESHOLD) + 1}

WindSpeeds == {Fx(5), Fx(WIND_THRESHOLD), Fx(WIND_THRESHOLD) + 1}

Forecasts ==
    {[date |-> "2026-01-01", maxTemp |-> mx, minTemp |-> mx - Fx(d),
      conditions |-> "Clear sky", precipitation |-> p, windSpeed |-> w] :
        mx \in MaxTemps, d \in 0..MaxSpread, p \in Precipitations, w \in WindSpeeds}

TopArguments == {<<>>} \cup {<<n>> : n \in (0 - MaxTop)..MaxTop}

RECURSIVE StringsUpTo(_, _)
\* every string of at most n characters of the alphabet
StringsUpTo(alphabet, n) ==
    IF n = 0 THEN {""}
    ELSE LET shorter == StringsUpTo(alphabet, n - 1)
         IN  shorter \cup {s \o c : s \in shorter, c \in alphabet}

\* search inputs
Queries == StringsUpTo({"a", " "}, MaxQueryLen)

\* city ids a client may send: any coordinate part in front of a name and a
\* country, any short string of separators, and the ids searchCities emits
CoordStrings == StringsUpTo({"9", "-", ".", ",", "x"}, MaxCoordLen)

ShortIds == StringsUpTo({":", ",", "1"}, MaxIdLen)

GeoLatitudes ==
    {Normalise(sg * (900 - i), 1) : sg \in {-1, 1}, i \in 0..MaxCoordStep}
        \cup {Normalise(sg * i, 2) : sg \in {-1, 1}, i \in 0..MaxCoordStep}
        \cup {[m |-> 515074, k |-> 4]}

GeoLongitudes ==
    {Normalise(sg * (1800 - i), 1) : sg \in {-1, 1}, i \in 0..MaxCoordStep}
        \cup {Normalise(sg * i, 2) : sg \in {-1, 1}, i \in 0..MaxCoordStep}
        \cup {[m |-> -1278, k |-> 4]}

\* the places upstream knows
GeocodingResults ==
    {[name |-> n, country |-> c, latitude |-> la, longitude |-> lo, feature_code |-> "PPL"] :
        n \in {"London", "", "a,b", "a:b"}, c \in {"United Kingdom", ""},
        la \in GeoLatitudes, lo \in GeoLongitudes}

EmittedIds == {CityOfResult(r).id : r \in GeocodingResults}

CityIds == {c \o ":N:C" : c \in CoordStrings} \cup ShortIds \cup EmittedIds

\* the results a geocoding reply is made of
SampleResults ==
    {[name |-> "London", country |-> "United Kingdom", latitude |-> [m |-> 515074, k |-> 4],
      longitude |-> [m |-> -1278, k |-> 4], feature_code |-> "PPLC"],
     [name |-> "a:b", country |-> "C", latitude |-> Num(-90), longitude |-> Num(180),
      feature_code |-> "PPL"],
     [name |-> "Heathrow", country |-> "United Kingdom", latitude |-> [m |-> 5147, k |-> 2],
      longitude |-> [m |-> -45, k |-> 2], feature_code |-> "AIRP"],
     [name |-> "Old Sarum", country |-> "United Kingdom", latitude |-> [m |-> 511, k |-> 1],
      longitude |-> [m |-> -18, k |-> 1], feature_code |-> "PPLX"]}

RECURSIVE SeqsUpTo(_, _)
\* every sequence of at most n elements of the set
SeqsUpTo(set, n) ==
    IF n = 0 THEN {<<>>}
    ELSE LET shorter == SeqsUpTo(set, n - 1)
         IN  shorter \cup {Append(q, x) : q \in shorter, x \in set}

\* how axios.get can fail
Failures ==
    {[isAxiosError |-> TRUE, code |-> "ECONNABORTED", hasResponse |-> FALSE, status |-> 0,
      statusText |-> "", message |-> "timeout of 10000ms exceeded"],
     [isAxiosError |-> TRUE, code |-> "ERR_BAD_REQUEST", hasResponse |-> TRUE, status |-> 429,
      statusText |-> "Too Many Requests", message |-> "Request failed with status code 429"],
     [isAxiosError |-> TRUE, code |-> "ERR_BAD_RESPONSE", hasResponse |-> TRUE, status |-> 500,
      statusText |-> "Internal Server Error",
      message |-> "Request failed with status code 500"],
     [isAxiosError |-> TRUE, code |-> "ERR_NETWORK", hasResponse |-> FALSE, status |-> 0,
      statusText |-> "", message |-> "Network Error"],
     [isAxiosError |-> FALSE, code |-> "", hasResponse |-> FALSE, status |-> 0,
      statusText |-> "", message |-> "Network error"]}

\* GeoNames feature codes upstream labels its results with
FeatureCodes ==
    {"PPL", "PPLA", "PPLA2", "PPLA3", "PPLA4", "PPLA5", "PPLC", "PPLCH", "PPLF", "PPLG",
     "PPLH", "PPLL", "PPLQ", "PPLR", "PPLS", "PPLW", "PPLX", "STLMT", "AIRP", "ADM1", "MT", ""}

\* one place under each feature code
CodedResults ==
    {[name |-> "Paris", country |-> "France", latitude |-> [m |-> 488534, k |-> 4],
      longitude |-> [m |-> 23488, k |-> 4], feature_code |-> c] : c \in FeatureCodes}

GeocodingReplies ==
    {[kind |-> "rejected", failure |-> f] : f \in Failures}
        \cup {[kind |-> "resolved", hasData |-> TRUE, hasResults |-> TRUE, results |-> <<r>>] :
                 r \in CodedResults}
        \cup {[kind |-> "resolved", hasData |-> FALSE, hasResults |-> FALSE, results |-> <<>>]}
        \cup {[kind |-> "resolved", hasData |-> TRUE, hasResults |-> FALSE, results |-> <<>>]}
        \cup {[kind |-> "resolved", hasData |-> TRUE, hasResults |-> TRUE, results |-> rs] :
                 rs \in SeqsUpTo(SampleResults, MaxReplyResults)}

\* the days a forecast reply is made of: the columns of the parallel arrays
SampleDays ==
    {[time |-> "2026-01-01", weather_code |-> 1, temperature_2m_max |-> Fx(22),
      temperature_2m_min |-> Fx(18), precipitation_sum |-> 0, wind_speed_10m_max |-> Fx(15)],
     [time |-> "2026-01-02", weather_code |-> 4, temperature_2m_max |-> Fx(-2),
      temperature_2m_min |-> Fx(-8), precipitation_sum |-> Fx(3), wind_speed_10m_max |-> Fx(25)]}

\* the daily block whose parallel arrays hold the given days
DailyOf(days) ==
    [time |-> [i \in 1..Len(days) |-> days[i].time],
     weather_code |-> [i \in 1..Len(days) |-> days[i].weather_code],
     temperature_2m_max |-> [i \in 1..Len(days) |-> days[i].temperature_2m_max],
     temperature_2m_min |-> [i \in 1..Len(days) |-> days[i].temperature_2m_min],
     precipitation_sum |-> [i \in 1..Len(days) |-> days[i].precipitation_sum],
     wind_speed_10m_max |-> [i \in 1..Len(days) |-> days[i].wind_speed_10m_max]]

SampleCurrent ==
    [temperature_2m |-> 205, relative_humidity_2m |-> Fx(65), precipitation |-> 0,
     weather_code |-> 1, wind_speed_10m |-> Fx(12)]

NoDaily == DailyOf(<<>>)

ForecastReplies ==
    {[kind |-> "rejected", failure |-> f] : f \in Failures}
        \cup {[kind |-> "resolved", hasDaily |-> FALSE, current |-> SampleCurrent,
               daily |-> NoDaily]}
        \cup {[kind |-> "resolved", hasDaily |-> TRUE, current |-> SampleCurrent,
               daily |-> DailyOf(days)] : days \in SeqsUpTo(SampleDays, MaxDays)}

\* the weather codes upstream may send
WeatherCodes == (0 - 1)..MaxWeatherCode

\* the numbers a caller of getWeatherData passes: either side of the limits,
\* and what is no finite number
WeatherLatitudes ==
    {Normalise(sg * (900 + i), 1) : sg \in {-1, 1}, i \in (0 - MaxCoordStep)..MaxCoordStep}
        \cup {NaN, Infinity, NegativeInfinity}

WeatherLongitudes ==
    {Normalise(sg * (1800 + i), 1) : sg \in {-1, 1}, i \in (0 - MaxCoordStep)..MaxCoordStep}
        \cup {Num(100), NaN, Infinity, NegativeInfinity}

-----------------------------------------------------------------------------
(* The state machine.  One operation is in progress at a time; it stands   *)
(* at "idle" before it starts, at "awaitGeocoding", "awaitForecast" or     *)
(* "awaitWeatherData" while its axios.get is pending, and at "done" once   *)
(* it returned or threw.                                                   *)

NoCall == [op |-> "none"]

NoOutcome == [kind |-> "none"]

NoResponse == [kind |-> "none"]

Value(v) == [kind |-> "value", value |-> v]

Error(e) == [kind |-> "error", error |-> e]

Init ==
    /\ pc = "idle"
    /\ call = NoCall
    /\ outcome = NoOutcome
    /\ requests = <<>>
    /\ response = NoResponse
    /\ console = <<>>
    /\ configs = ACTIVITY_CONFIGS
    /\ previous = NoOutcome

\* a call that sorts the table itself and scores its profiles in that order
RankActivitiesForDay_SortsTable ==
    /\ pc = "idle"
    /\ \E forecast \in Forecasts, top \in TopArguments :
        LET sorted == rankActivitiesOver(configs, forecast, <<4>>)
        IN  /\ call' = [op |-> "rankActivitiesForDay", forecast |-> forecast, top |-> top]
            /\ outcome' = Value(rankActivitiesForDay(forecast, top))
            /\ configs' = [i \in 1..4 |->
                              CHOOSE c \in {configs[k] : k \in 1..4} : c.name = sorted[i].name]
    /\ pc' = "done"
    /\ UNCHANGED <<requests, response, console, previous>>

\* a caller invokes activityRankingService.rankActivitiesForDay
RankActivitiesForDay ==
    /\ pc = "idle"
    /\ \E forecast \in Forecasts, top \in TopArguments :
        /\ call' = [op |-> "rankActivitiesForDay", forecast |-> forecast, top |-> top]
        /\ outcome' = Value(rankActivitiesForDay(forecast, top))
    /\ pc' = "done"
    /\ UNCHANGED <<requests, response, console, configs, previous>>

\* the caller makes the call that just returned once more, with the same
\* arguments
RankActivitiesForDayAgain ==
    /\ pc = "done"
    /\ call.op = "rankActivitiesForDay"
    /\ previous = NoOutcome
    /\ previous' = outcome
    /\ outcome' = Value(rankActivitiesForDay(call.forecast, call.top))
    /\ UNCHANGED <<pc, call, requests, response, console, configs>>

\* the searchCities resolver, up to the await of the geocoding request
SearchCities ==
    /\ pc = "idle"
    /\ \E input \in Queries :
        LET begun == searchCitiesBegin(input)
            started == ConsoleLog("Searching for cities with input:", input)
        IN  /\ call' = [op |-> "searchCities", input |-> input]
            /\ IF begun.threw
               THEN /\ pc' = "done"
                    /\ requests' = <<>>
                    /\ console' = <<started,
                                    ConsoleError("Error searching cities:", begun.error)>>
                    /\ outcome' = Error(SearchCitiesCatch(begun.error))
               ELSE /\ pc' = "awaitGeocoding"
                    /\ requests' = <<begun.value>>
                    /\ console' = <<started>>
                    /\ outcome' = NoOutcome
    /\ UNCHANGED <<response, configs, previous>>

\* a resolver that issues the geocoding request again when it was rejected
GeocodingSettles_Retry ==
    /\ pc = "awaitGeocoding"
    /\ \E reply \in GeocodingReplies :
        /\ response' = reply
        /\ IF reply.kind = "rejected"
           THEN /\ pc' = "awaitGeocoding"
                /\ requests' = Append(requests, requests[1])
                /\ UNCHANGED <<outcome, console>>
           ELSE /\ pc' = "done"
                /\ outcome' = Value(searchCitiesResume(reply).value)
                /\ UNCHANGED <<requests, console>>
    /\ Len(requests) < 2
    /\ UNCHANGED <<call, configs, previous>>

\* the geocoding request settles and the searchCities resolver runs to its end
GeocodingSettles ==
    /\ pc = "awaitGeocoding"
    /\ \E reply \in GeocodingReplies :
        LET resumed == searchCitiesResume(reply)
        IN  /\ response' = reply
            /\ IF resumed.threw
               THEN /\ console' = Append(console,
                                         ConsoleError("Error searching cities:",
                                                      resumed.error))
                    /\ outcome' = Error(SearchCitiesCatch(resumed.error))
               ELSE /\ console' = Append(console,
                                         ConsoleLog("Found cities for query:",
                                                    <<Len(resumed.value), call.input>>))
                    /\ outcome' = Value(resumed.value)
    /\ pc' = "done"
    /\ UNCHANGED <<call, requests, configs, previous>>

\* the getCityWeather resolver, up to the await of the forecast request:
\* getWeatherByCityId parses the id and getWeatherData checks the coordinates
GetCityWeather ==
    /\ pc = "idle"
    /\ \E cityId \in CityIds :
        LET started == ConsoleLog("Getting weather for city ID:", cityId)
            parsed == parseCityId(cityId)
            begun == IF parsed.threw THEN parsed
                     ELSE getWeatherDataBegin(parsed.value.latitude, parsed.value.longitude)
        IN  IF begun.threw
            THEN /\ call' = [op |-> "getCityWeather", cityId |-> cityId]
                 /\ pc' = "done"
                 /\ requests' = <<>>
                 /\ console' = <<started,
                                 ConsoleError("Error getting city weather:", begun.error)>>
                 /\ outcome' = Error(GetCityWeatherCatch(begun.error))
            ELSE /\ call' = [op |-> "getCityWeather", cityId |-> cityId,
                             cityInfo |-> parsed.value]
                 /\ pc' = "awaitForecast"
                 /\ requests' = <<begun.value>>
                 /\ console' = <<started>>
                 /\ outcome' = NoOutcome
    /\ UNCHANGED <<response, configs, previous>>

\* the forecast request settles and the getCityWeather resolver runs to its end
ForecastSettles ==
    /\ pc = "awaitForecast"
    /\ \E reply \in ForecastReplies :
        LET resumed == getWeatherDataResume(reply)
            city == CityOf(call.cityId, call.cityInfo)
        IN  /\ response' = reply
            /\ IF resumed.threw
               THEN /\ console' = Append(console,
                                         ConsoleError("Error getting city weather:",
                                                      resumed.error))
                    /\ outcome' = Error(GetCityWeatherCatch(resumed.error))
               ELSE /\ console' = Append(console,
                                         ConsoleLog("Successfully fetched weather for",
                                                    <<city.name, city.country>>))
                    /\ outcome' = Value([city |-> city, weather |-> resumed.value])
    /\ pc' = "done"
    /\ UNCHANGED <<call, requests, configs, previous>>

\* the forecast adapter looks up the condition of a weather code
GetWeatherCondition ==
    /\ pc = "idle"
    /\ \E code \in WeatherCodes :
        /\ call' = [op |-> "getWeatherCondition", code |-> code]
        /\ outcome' = Value(getWeatherCondition(code))
    /\ pc' = "done"
    /\ UNCHANGED <<requests, response, console, configs, previous>>

\* a caller invokes openMeteoAPI.getWeatherData, up to the await of the
\* forecast request
GetWeatherData ==
    /\ pc = "idle"
    /\ \E latitude \in WeatherLatitudes, longitude \in WeatherLongitudes :
        LET begun == getWeatherDataBegin(latitude, longitude)
        IN  /\ call' = [op |-> "getWeatherData", latitude |-> latitude,
                        longitude |-> longitude]
            /\ IF begun.threw
               THEN /\ pc' = "done"
                    /\ requests' = <<>>
                    /\ outcome' = Error(begun.error)
               ELSE /\ pc' = "awaitWeatherData"
                    /\ requests' = <<begun.value>>
                    /\ outcome' = NoOutcome
    /\ UNCHANGED <<response, console, configs, previous>>

\* the forecast request of a getWeatherData call settles and the call ends
WeatherDataSettles ==
    /\ pc = "awaitWeatherData"
    /\ \E reply \in ForecastReplies :
        LET resumed == getWeatherDataResume(reply)
        IN  /\ response' = reply
            /\ outcome' = IF resumed.threw THEN Error(resumed.error)
                          ELSE Value(resumed.value)
    /\ pc' = "done"
    /\ UNCHANGED <<call, requests, console, configs, previous>>

\* the caller takes the outcome; the service is ready for the next operation
Return ==
    /\ pc = "done"
    /\ pc' = "idle"
    /\ call' = NoCall
    /\ outcome' = NoOutcome
    /\ requests' = <<>>
    /\ response' = NoResponse
    /\ console' = <<>>
    /\ previous' = NoOutcome
    /\ UNCHANGED configs

Next ==
    \/ RankActivitiesForDay
    \/ RankActivitiesForDayAgain
    \/ SearchCities
    \/ GeocodingSettles
    \/ GetCityWeather
    \/ ForecastSettles
    \/ GetWeatherData
    \/ WeatherDataSettles
    \/ GetWeatherCondition
    \/ Return

Spec == Init /\ [][Next]_vars

-----------------------------------------------------------------------------
(* Concurrent operations.  The server runs one resolver call per client    *)
(* request; the calls interleave at their awaits.  Here pc, call, outcome, *)
(* requests, response and console hold one value per operation in         *)
(* progress (the locals of that call); configs is the one table of the     *)
(* process.                                                                *)

Slots == 1..MaxOps

\* what the clients send and what upstream answers while operations overlap
ConcurrentQueries == {"a", "aa"}

ConcurrentCityIds == {"99,9:N:C", "9,9:N:C"}

ConcurrentGeocodingReplies ==
    {r \in GeocodingReplies :
        \/ r.kind = "rejected" /\ r.failure.code \in {"ECONNABORTED", "ERR_BAD_RESPONSE"}
        \/ r.kind = "resolved" /\ ~r.hasResults
        \/ r.kind = "resolved" /\ r.hasResults /\ Len(r.results) = 1
               /\ r.results[1].feature_code = "PPLC"}

ConcurrentForecastReplies ==
    {r \in ForecastReplies :
        \/ r.kind = "rejected" /\ r.failure.hasResponse /\ r.failure.status = 429
        \/ r.kind = "resolved" /\ Len(r.daily.time) <= 1}

ConcurrentInit ==
    /\ pc = [s \in Slots |-> "idle"]
    /\ call = [s \in Slots |-> NoCall]
    /\ outcome = [s \in Slots |-> NoOutcome]
    /\ requests = [s \in Slots |-> <<>>]
    /\ response = [s \in Slots |-> NoResponse]
    /\ console = [s \in Slots |-> <<>>]
    /\ configs = ACTIVITY_CONFIGS
    /\ previous = NoOutcome

\* operation s: the searchCities resolver, up to the await
OpSearchCities(s) ==
    /\ pc[s] = "idle"
    /\ \E input \in ConcurrentQueries :
        LET begun == searchCitiesBegin(input)
            started == ConsoleLog("Searching for cities with input:", input)
        IN  /\ call' = [call EXCEPT ![s] = [op |-> "searchCities", input |-> input]]
            /\ IF begun.threw
               THEN /\ pc' = [pc EXCEPT ![s] = "done"]
                    /\ requests' = requests
                    /\ console' = [console EXCEPT ![s] =
                           <<started, ConsoleError("Error searching cities:", begun.error)>>]
                    /\ outcome' = [outcome EXCEPT ![s] =
                           Error(SearchCitiesCatch(begun.error))]
               ELSE /\ pc' = [pc EXCEPT ![s] = "awaitGeocoding"]
                    /\ requests' = [requests EXCEPT ![s] = <<begun.value>>]
                    /\ console' = [console EXCEPT ![s] = <<started>>]
                    /\ outcome' = outcome
    /\ UNCHANGED <<response, configs, previous>>

\* operation s: its geocoding request settles and the resolver runs to its end
OpGeocodingSettles(s) ==
    /\ pc[s] = "awaitGeocoding"
    /\ \E reply \in ConcurrentGeocodingReplies :
        LET resumed == searchCitiesResume(reply)
        IN  /\ response' = [response EXCEPT ![s] = reply]
            /\ IF resumed.threw
               THEN /\ console' = [console EXCEPT ![s] =
                           Append(@, ConsoleError("Error searching cities:", resumed.error))]
                    /\ outcome' = [outcome EXCEPT ![s] =
                           Error(SearchCitiesCatch(resumed.error))]
               ELSE /\ console' = [console EXCEPT ![s] =
                           Append(@, ConsoleLog("Found cities for query:",
                                                <<Len(resumed.value), call[s].input>>))]
                    /\ outcome' = [outcome EXCEPT ![s] = Value(resumed.value)]
    /\ pc' = [pc EXCEPT ![s] = "done"]
    /\ UNCHANGED <<call, requests, configs, previous>>

\* operation s: the getCityWeather resolver, up to the await
OpGetCityWeather(s) ==
    /\ pc[s] = "idle"
    /\ \E cityId \in ConcurrentCityIds :
        LET started == ConsoleLog("Getting weather for city ID:", cityId)
            parsed == parseCityId(cityId)
            begun == IF parsed.threw THEN parsed
                     ELSE getWeatherDataBegin(parsed.value.latitude, parsed.value.longitude)
        IN  IF begun.threw
            THEN /\ call' = [call EXCEPT ![s] = [op |-> "getCityWeather", cityId |-> cityId]]
                 /\ pc' = [pc EXCEPT ![s] = "done"]
                 /\ requests' = requests
                 /\ console' = [console EXCEPT ![s] =
                        <<started, ConsoleError("Error getting city weather:", begun.error)>>]
                 /\ outcome' = [outcome EXCEPT ![s] =
                        Error(GetCityWeatherCatch(begun.error))]
            ELSE /\ call' = [call EXCEPT ![s] = [op |-> "getCityWeather", cityId |-> cityId,
                                                 cityInfo |-> parsed.value]]
                 /\ pc' = [pc EXCEPT ![s] = "awaitForecast"]
                 /\ requests' = [requests EXCEPT ![s] = <<begun.value>>]
                 /\ console' = [console EXCEPT ![s] = <<started>>]
                 /\ outcome' = outcome
    /\ UNCHANGED <<response, configs, previous>>

\* a resolver that takes the city from the call in the first slot, as if
\* cityInfo were a field of the singleton
OpForecastSettles_SharedCityInfo(s) ==
    /\ pc[s] = "awaitForecast"
    /\ \E reply \in ConcurrentForecastReplies :
        LET resumed == getWeatherDataResume(reply)
            shared == IF "cityId" \in DOMAIN call[1] THEN call[1] ELSE call[s]
        IN  /\ response' = [response EXCEPT ![s] = reply]
            /\ outcome' = [outcome EXCEPT ![s] =
                   IF resumed.threw THEN Error(GetCityWeatherCatch(resumed.error))
                   ELSE Value([city |-> [id |-> shared.cityId], weather |-> resumed.value])]
    /\ pc' = [pc EXCEPT ![s] = "done"]
    /\ UNCHANGED <<call, requests, console, configs, previous>>

\* operation s: its forecast request settles and the resolver runs to its end
OpForecastSettles(s) ==
    /\ pc[s] = "awaitForecast"
    /\ \E reply \in ConcurrentForecastReplies :
        LET resumed == getWeatherDataResume(reply)
            city == CityOf(call[s].cityId, call[s].cityInfo)
        IN  /\ response' = [response EXCEPT ![s] = reply]
            /\ IF resumed.threw
               THEN /\ console' = [console EXCEPT ![s] =
                           Append(@, ConsoleError("Error getting city weather:",
                                                  resumed.error))]
                    /\ outcome' = [outcome EXCEPT ![s] =
                           Error(GetCityWeatherCatch(resumed.error))]
               ELSE /\ console' = [console EXCEPT ![s] =
                           Append(@, ConsoleLog("Successfully fetched weather for",
                                                <<city.name, city.country>>))]
                    /\ outcome' = [outcome EXCEPT ![s] =
                           Value([city |-> city, weather |-> resumed.value])]
    /\ pc' = [pc EXCEPT ![s] = "done"]
    /\ UNCHANGED <<call, requests, configs, previous>>

\* operation s: the client takes the outcome; the slot is free again
OpReturn(s) ==
    /\ pc[s] = "done"
    /\ pc' = [pc EXCEPT ![s] = "idle"]
    /\ call' = [call EXCEPT ![s] = NoCall]
    /\ outcome' = [outcome EXCEPT ![s] = NoOutcome]
    /\ requests' = [requests EXCEPT ![s] = <<>>]
    /\ response' = [response EXCEPT ![s] = NoResponse]
    /\ console' = [console EXCEPT ![s] = <<>>]
    /\ UNCHANGED <<configs, previous>>

ConcurrentNext ==
    \E s \in Slots :
        \/ OpSearchCities(s)
        \/ OpGeocodingSettles(s)
        \/ OpGetCityWeather(s)
        \/ OpForecastSettles(s)
        \/ OpReturn(s)

ConcurrentSpec == ConcurrentInit /\ [][ConcurrentNext]_vars

-----------------------------------------------------------------------------
(* Properties of the scoring engine.                                       *)

\* a call of rankActivitiesForDay has returned; outcome.value is its result
RankCompleted == pc = "done" /\ call.op = "rankActivitiesForDay"

\* the profile table as the specification prints it (tolerances in tenths)
RefProfiles == <<
    [name |-> "skiing", lo |-> -100, hi |-> 20, rain |-> 1, wind |-> 2],
    [name |-> "surfing", lo |-> 180, hi |-> 280, rain |-> 7, wind |-> 8],
    [name |-> "indoor_sightseeing", lo |-> 100, hi |-> 300, rain |-> 10, wind |-> 5],
    [name |-> "outdoor_sightseeing", lo |-> 150, hi |-> 250, rain |-> 1, wind |-> 3] >>

\* twice the average temperature, in tenths
RefAvg2(f) == f.maxTemp + f.minTemp

\* the four terms of the specification's formula, each in twentieths
RefTempTerm(p, f) ==
    LET a == RefAvg2(f)
        dist == IF a < 2 * p.lo THEN 2 * p.lo - a ELSE a - 2 * p.hi
    IN  IF 2 * p.lo <= a /\ a <= 2 * p.hi THEN 600
        ELSE IF 5 * dist < 600 THEN 0 - 5 * dist ELSE -600

RefRainTerm(p, f) ==
    IF f.precipitation > 10
    THEN (IF p.rain > 8 THEN 200 ELSE 0) - (10 - p.rain) * 40
    ELSE (IF p.rain < 3 THEN 200 ELSE 0)

RefWindTerm(p, f) == IF f.windSpeed > 200 THEN p.wind * 30 - 150 ELSE 0

RefIndoorTerm(p, f) ==
    IF p.name = "indoor_sightseeing" /\ (RefAvg2(f) < 200 \/ RefAvg2(f) > 600)
    THEN 300 ELSE 0

\* the raw score, in twentieths
RefRaw(p, f) ==
    1000 + RefTempTerm(p, f) + RefRainTerm(p, f) + RefWindTerm(p, f) + RefIndoorTerm(p, f)

\* rounded to the nearest integer (halves up), then clamped to 0..100
RefScore(p, f) ==
    LET raw == RefRaw(p, f)
        r == (raw + 10) \div 20
    IN  IF r < 0 THEN 0 ELSE IF r > 100 THEN 100 ELSE r

RefTags(p, f) ==
    LET a == RefAvg2(f)
        temp == IF a < 2 * p.lo THEN "too cold"
                ELSE IF a > 2 * p.hi THEN "too warm" ELSE "ideal temperature"
        rain == IF f.precipitation > 10
                THEN (IF p.rain > 8 THEN "rain makes it more appealing"
                      ELSE IF p.rain < 3 THEN "rain not ideal" ELSE "")
                ELSE (IF p.rain < 3 THEN "no rain" ELSE "")
        wind == IF f.windSpeed > 200
                THEN (IF p.wind > 6 THEN "good wind conditions"
                      ELSE IF p.wind < 4 THEN "windy conditions" ELSE "")
                ELSE ""
        indoor == IF RefIndoorTerm(p, f) > 0
                  THEN "extreme weather favors indoor activities" ELSE ""
    IN  SelectSeq(<<temp, rain, wind, indoor>>, LAMBDA t : t # "")

RefReasoning(p, f) ==
    LET t == RefTags(p, f)
    IN  IF Len(t) = 1 THEN t[1]
        ELSE IF Len(t) = 2 THEN t[1] \o ", " \o t[2]
        ELSE IF Len(t) = 3 THEN t[1] \o ", " \o t[2] \o ", " \o t[3]
        ELSE t[1] \o ", " \o t[2] \o ", " \o t[3] \o ", " \o t[4]

RefActivity(p, f) ==
    [name |-> p.name, suitabilityScore |-> RefScore(p, f), reasoning |-> RefReasoning(p, f)]

\* the place of profile k in the stable descending order of the scores
RefPosition(k, f) ==
    LET sc == [j \in 1..4 |-> RefScore(RefProfiles[j], f)]
    IN  1 + Cardinality({j \in 1..4 : sc[j] > sc[k] \/ (sc[j] = sc[k] /\ j < k)})

\* C1: every activity rankActivitiesForDay returns has an integer
\* suitabilityScore between 0 and 100 and a non-empty reasoning string.
C1_ScoreInRangeReasoningNonEmpty ==
    RankCompleted =>
        \A i \in 1..Len(outcome.value) :
            /\ outcome.value[i].suitabilityScore \in 0..100
            /\ Len(outcome.value[i].reasoning) > 0

\* a call returned all four activities and one of them sits on the lower clamp
C1_Witness ==
    /\ RankCompleted
    /\ Len(outcome.value) = 4
    /\ \E i \in 1..4 : outcome.value[i].suitabilityScore = 0
    /\ \E i \in 1..4 : outcome.value[i].suitabilityScore >= 80

\* C2: each returned activity carries the score and the reasoning of the
\* specification's formula for its profile (base 50, temperature, rain, wind
\* and indoor terms, rounded and clamped; tags in that order joined by ", "),
\* and a call with top >= 4 returns every profile of the table.
C2_ScoreMatchesReference ==
    RankCompleted =>
        /\ \A i \in 1..Len(outcome.value) :
              \E k \in 1..4 : outcome.value[i] = RefActivity(RefProfiles[k], call.forecast)
        /\ (call.top # <<>> /\ call.top[1] >= 4) =>
              {outcome.value[i].name : i \in 1..Len(outcome.value)}
                  = {RefProfiles[k].name : k \in 1..4}

\* precipitation exactly 1 and wind exactly 20: no rain, not windy, and the
\* low-tolerance profile in first place got its no-rain bonus
C2_Witness ==
    /\ RankCompleted
    /\ call.forecast.precipitation = 10
    /\ call.forecast.windSpeed = 200
    /\ Len(outcome.value) = 4
    /\ outcome.value[1].reasoning = "ideal temperature, no rain"
    /\ outcome.value[1].suitabilityScore = 90

\* C3: the returned sequence is sorted non-increasing by suitabilityScore.
C3_SortedNonIncreasing ==
    RankCompleted =>
        \A i \in 1..(Len(outcome.value) - 1) :
            outcome.value[i].suitabilityScore >= outcome.value[i + 1].suitabilityScore

\* four activities came back and the table order was not already sorted
C3_Witness ==
    /\ RankCompleted
    /\ Len(outcome.value) = 4
    /\ outcome.value[1].name = "outdoor_sightseeing"
    /\ outcome.value[1].suitabilityScore > outcome.value[4].suitabilityScore

\* C4 as stated: the result has exactly min(N, 4) activities for every
\* integer top = N, and exactly 1 with top omitted.
C4_LengthIsMinTopFour ==
    RankCompleted =>
        Len(outcome.value) = IF call.top = <<>> THEN 1
                             ELSE IF call.top[1] < 4 THEN call.top[1] ELSE 4

\* C4, amended: exactly min(N, 4) activities for every integer top = N >= 0,
\* exactly 1 with top omitted; a negative N drops the last -N of the four
\* (max(0, 4 + N) activities).
C4_LengthForEveryTop ==
    RankCompleted =>
        Len(outcome.value) = IF call.top = <<>> THEN 1
                             ELSE IF call.top[1] >= 4 THEN 4
                             ELSE IF call.top[1] >= 0 THEN call.top[1]
                             ELSE IF call.top[1] >= -4 THEN 4 + call.top[1]
                             ELSE 0

\* a call with top = 3 returned three activities
C4_Witness ==
    /\ RankCompleted
    /\ call.top = <<3>>
    /\ Len(outcome.value) = 3

\* C5: profiles with equal scores come out in the table's order (skiing,
\* surfing, indoor_sightseeing, outdoor_sightseeing): the result is the
\* prefix of the stable descending sort of the four scored profiles.
C5_TiesKeepTableOrder ==
    RankCompleted =>
        \A i \in 1..Len(outcome.value) :
            \E k \in 1..4 : /\ RefPosition(k, call.forecast) = i
                            /\ outcome.value[i].name = RefProfiles[k].name

\* a tie between skiing and outdoor_sightseeing, both returned
C5_Witness ==
    /\ RankCompleted
    /\ \E i \in 1..(Len(outcome.value) - 1) :
          /\ outcome.value[i].suitabilityScore = outcome.value[i + 1].suitabilityScore
          /\ outcome.value[i].name = "skiing"
          /\ outcome.value[i + 1].name = "outdoor_sightseeing"

-----------------------------------------------------------------------------
(* Properties of the city-id codec and of the guards of the adapters.      *)

\* how many times the character c occurs in s
Occurrences(s, c) == Cardinality({i \in 1..Len(s) : SubSeq(s, i, i) = c})

\* the decimal m / 10^k lies in [lo, hi]
RefInRange(x, lo, hi) == x.k >= 0 /\ lo * Pow10(x.k) <= x.m /\ x.m <= hi * Pow10(x.k)

\* the ids searchCities emits, each with the result it was built from
EmittedPairs == {[id |-> CityOfResult(r).id, result |-> r] : r \in GeocodingResults}

\* the getCityWeather resolver failed with the given message start and code,
\* and issued no request
FailedBeforeRequest(messageStart, code) ==
    /\ pc = "done"
    /\ outcome.kind = "error"
    /\ SubSeq(outcome.error.message, 1, Len(messageStart)) = messageStart
    /\ outcome.error.extensions.code = code
    /\ requests = <<>>

\* C6: decoding the id built from valid coordinates and a colon-free name
\* and country gives back the same latitude, longitude, name and country.
C6_RoundTrip ==
    (call.op = "getCityWeather" /\ call.cityId \in EmittedIds) =>
        \A e \in EmittedPairs :
            ( /\ e.id = call.cityId
              /\ RefInRange(e.result.latitude, -90, 90)
              /\ RefInRange(e.result.longitude, -180, 180)
              /\ Occurrences(e.result.name, ":") = 0
              /\ Occurrences(e.result.country, ":") = 0 )
            => /\ pc \in {"awaitForecast", "done"}
               /\ requests # <<>>
               /\ "cityInfo" \in DOMAIN call
               /\ call.cityInfo = [latitude |-> e.result.latitude,
                                   longitude |-> e.result.longitude,
                                   name |-> e.result.name,
                                   country |-> e.result.country]

\* an emitted id with a fraction that starts with a zero, a longitude on the
\* date line and a comma in the name was decoded
C6_Witness ==
    /\ pc = "awaitForecast"
    /\ call.cityId = "-0.01,180:a,b:United Kingdom"
    /\ call.cityInfo = [latitude |-> [m |-> -1, k |-> 2], longitude |-> [m |-> 180, k |-> 0],
                        name |-> "a,b", country |-> "United Kingdom"]

\* C7: an id that does not split on ':' into exactly 3 parts makes
\* getCityWeather fail with the format error, code INVALID_COORDINATES, and
\* no outbound request is issued.
C7_WrongPartCountFails ==
    (call.op = "getCityWeather" /\ Occurrences(call.cityId, ":") # 2) =>
        FailedBeforeRequest("Invalid city ID format", "INVALID_COORDINATES")

\* an id of four parts, three of them not empty, was refused
C7_Witness ==
    /\ call.op = "getCityWeather"
    /\ call.cityId = "90,180:a:b:"
    /\ FailedBeforeRequest("Invalid city ID format", "INVALID_COORDINATES")

\* the coordinate strings of a 3-part id, <<>> when there are not two
RefCoordStrings(cityId) ==
    LET parts == Split(cityId, ":")
        cs == IF Len(parts) = 3 THEN Split(parts[1], ",") ELSE <<>>
    IN  IF Len(cs) >= 2 /\ cs[1] # "" /\ cs[2] # "" THEN <<cs[1], cs[2]>> ELSE <<>>

\* C8: a 3-part id whose parsed latitude is outside [-90, 90] or whose
\* parsed longitude is outside [-180, 180] makes getCityWeather fail with
\* code INVALID_COORDINATES, and no forecast request is issued.
C8_OutOfRangeFails ==
    LET cs == RefCoordStrings(call.cityId)
    IN  ( /\ call.op = "getCityWeather"
          /\ cs # <<>>
          /\ ~isNaN(parseFloat(cs[1]))
          /\ ~isNaN(parseFloat(cs[2]))
          /\ \/ ~RefInRange(parseFloat(cs[1]), -90, 90)
             \/ ~RefInRange(parseFloat(cs[2]), -180, 180) )
        => FailedBeforeRequest("Invalid coordinates in city ID", "INVALID_COORDINATES")

\* latitude 99 with a fine longitude was refused
C8_Witness ==
    /\ call.op = "getCityWeather"
    /\ call.cityId = "99,-9:N:C"
    /\ FailedBeforeRequest("Invalid coordinates in city ID", "INVALID_COORDINATES")

\* s is a decimal literal from its first to its last character
RefNumeric(s) ==
    LET body == IF Len(s) > 0 /\ SubSeq(s, 1, 1) \in {"+", "-"} THEN SubSeq(s, 2, Len(s)) ELSE s
    IN  /\ \A i \in 1..Len(body) : SubSeq(body, i, i) \in
               {"0", "1", "2", "3", "4", "5", "6", "7", "8", "9", "."}
        /\ Occurrences(body, ".") <= 1
        /\ Len(body) > Occurrences(body, ".")

\* C9 as stated: decode succeeds only when the first part splits on ',' into
\* exactly 2 coordinate strings and both are numeric from end to end.
C9_DecodeOnlyTwoNumericStrings ==
    (call.op = "getCityWeather" /\ pc = "awaitForecast") =>
        LET first == Split(call.cityId, ":")[1]
            cs == Split(first, ",")
        IN  /\ Len(cs) = 2
            /\ RefNumeric(cs[1])
            /\ RefNumeric(cs[2])

\* the number of characters of s between its first and its last character
\* that is not a space
RefTrimmedLength(s) ==
    LET solid == {i \in 1..Len(s) : SubSeq(s, i, i) # " "}
    IN  IF solid = {} THEN 0
        ELSE (CHOOSE i \in solid : \A j \in solid : j <= i)
                 - (CHOOSE i \in solid : \A j \in solid : j >= i) + 1

\* C10: searchCities fails with code BAD_USER_INPUT whenever the trimmed
\* query has fewer than 2 characters, and no geocoding request is issued.
C10_ShortQueryFails ==
    (call.op = "searchCities" /\ RefTrimmedLength(call.input) < 2) =>
        /\ pc = "done"
        /\ outcome.kind = "error"
        /\ outcome.error.extensions.code = "BAD_USER_INPUT"
        /\ requests = <<>>

\* a query of three characters, one of them solid, was refused
C10_Witness ==
    /\ pc = "done"
    /\ call.op = "searchCities"
    /\ call.input = " a "
    /\ outcome.kind = "error"
    /\ outcome.error.extensions.code = "BAD_USER_INPUT"
    /\ requests = <<>>

-----------------------------------------------------------------------------
(* Properties of the adapters and of the resolvers.                        *)

\* C11: getWeatherData fails with code INVALID_COORDINATES, with no request
\* issued, exactly when latitude or longitude is no finite number or
\* latitude is outside [-90, 90] or longitude is outside [-180, 180];
\* otherwise exactly one forecast request is issued.
C11_GuardBeforeRequest ==
    call.op = "getWeatherData" =>
        LET rejected == \/ ~isFinite(call.latitude)
                        \/ ~isFinite(call.longitude)
                        \/ ~RefInRange(call.latitude, -90, 90)
                        \/ ~RefInRange(call.longitude, -180, 180)
            failedOnCoordinates == /\ outcome.kind = "error"
                                   /\ outcome.error.code = "INVALID_COORDINATES"
        IN  /\ rejected => /\ pc = "done"
                           /\ failedOnCoordinates
                           /\ requests = <<>>
                           /\ response = NoResponse
            /\ ~rejected => /\ ~failedOnCoordinates
                            /\ Len(requests) = 1
                            /\ requests[1].url = "https://api.open-meteo.com/v1/forecast"
                            /\ requests[1].params.latitude = call.latitude
                            /\ requests[1].params.longitude = call.longitude

\* an infinite latitude with a fine longitude was refused, no request made
C11_Witness ==
    /\ pc = "done"
    /\ call.op = "getWeatherData"
    /\ call.latitude = Infinity
    /\ call.longitude = Num(180)
    /\ outcome.kind = "error"
    /\ outcome.error.code = "INVALID_COORDINATES"
    /\ requests = <<>>

\* an operation that awaits axios.get has ended
AdapterOps == {"searchCities", "getCityWeather", "getWeatherData"}

\* the code of the error an ended operation surfaced: extensions.code of the
\* GraphQLError of a resolver, code of the OpenMeteoAPIError of an adapter
SurfacedCode ==
    IF call.op = "getWeatherData" THEN outcome.error.code
    ELSE outcome.error.extensions.code

\* the upstream code the kind of a transport failure calls for
RefUpstreamCode(failure) ==
    CASE failure.code = "ECONNABORTED" -> "TIMEOUT"
      [] failure.code # "ECONNABORTED" /\ failure.hasResponse /\ failure.status = 429 ->
             "RATE_LIMIT_EXCEEDED"
      [] OTHER -> "UNKNOWN_ERROR"

\* C12: in both adapters a rejected axios.get ends the operation with the
\* one code of its kind: TIMEOUT for a timeout, RATE_LIMIT_EXCEEDED for a
\* 429 response, UNKNOWN_ERROR for every other failure.
C12_FailureReclassified ==
    (pc = "done" /\ call.op \in AdapterOps /\ response.kind = "rejected") =>
        /\ outcome.kind = "error"
        /\ SurfacedCode = RefUpstreamCode(response.failure)

\* a 429 reply to the geocoding request surfaced as RATE_LIMIT_EXCEEDED
C12_Witness ==
    /\ pc = "done"
    /\ call.op = "searchCities"
    /\ response.kind = "rejected"
    /\ response.failure.status = 429
    /\ outcome.kind = "error"
    /\ outcome.error.extensions.code = "RATE_LIMIT_EXCEEDED"

\* the error the adapter raised, as the catch block of the resolver logged it
RaisedError == console[Len(console)].arg

\* the collaborator a resolver names in the errors it surfaces
RefService == [searchCities |-> "OpenMeteo Geocoding API",
               getCityWeather |-> "OpenMeteo Weather API"]

\* C13: when the adapter raises a typed error with code c, the resolver
\* surfaces a GraphQLError whose extensions.code is c and whose
\* extensions.service names the geocoding collaborator for searchCities and
\* the forecast collaborator for getCityWeather; whatever leaves a resolver
\* as an error is a GraphQLError with a code.
C13_CodePassedThrough ==
    (pc = "done" /\ call.op \in DOMAIN RefService /\ outcome.kind = "error") =>
        /\ outcome.error.name = "GraphQLError"
        /\ "code" \in DOMAIN outcome.error.extensions
        /\ console[Len(console)].level = "error"
        /\ RaisedError.name = "OpenMeteoAPIError" =>
               /\ outcome.error.extensions.code = RaisedError.code
               /\ outcome.error.message = RaisedError.message
               /\ outcome.error.extensions.service = RefService[call.op]

\* a timeout of the forecast request left getCityWeather as TIMEOUT of the
\* weather collaborator
C13_Witness ==
    /\ pc = "done"
    /\ call.op = "getCityWeather"
    /\ outcome.kind = "error"
    /\ RaisedError.name = "OpenMeteoAPIError"
    /\ RaisedError.code = "TIMEOUT"
    /\ outcome.error.extensions = [code |-> "TIMEOUT", service |-> "OpenMeteo Weather API"]

\* C14 as stated: a failure that is neither a user error nor a transport
\* failure (the request was issued and axios.get resolved, and the operation
\* still failed) is surfaced with code INTERNAL_SERVER_ERROR and names no
\* upstream collaborator.
C14_OtherFailuresAreInternal ==
    ( /\ pc = "done"
      /\ call.op \in DOMAIN RefService
      /\ response.kind = "resolved"
      /\ outcome.kind = "error" )
    => /\ outcome.error.extensions.code = "INTERNAL_SERVER_ERROR"
       /\ "service" \notin DOMAIN outcome.error.extensions

\* the positions at which an operation waits for its axios.get
Awaiting == {"awaitGeocoding", "awaitForecast", "awaitWeatherData"}

\* C15: an operation issues at most one outbound request in its lifetime:
\* requests are issued only when the operation starts, the step that
\* settles the request issues none and ends the operation, and when the
\* request was rejected the operation ends in an error.
C15_SingleCallNoRetry ==
    [][ /\ Len(requests') <= 1
        /\ pc # "idle" => (requests' = requests \/ (pc = "done" /\ requests' = <<>>))
        /\ pc \in Awaiting =>
               /\ Len(requests) = 1
               /\ pc' = "done"
               /\ response'.kind = "rejected" => outcome'.kind = "error" ]_vars

\* the forecast request of getCityWeather was rejected: one request was
\* issued and the operation ended in an error
C15_Witness ==
    /\ pc = "done"
    /\ call.op = "getCityWeather"
    /\ response.kind = "rejected"
    /\ Len(requests) = 1
    /\ outcome.kind = "error"

\* the fields of a complete city record, weather report and forecast day
RefCityFields == {"id", "name", "country", "latitude", "longitude"}

RefWeatherFields ==
    {"temperature", "conditions", "humidity", "windSpeed", "precipitation", "forecast"}

RefDayFields ==
    {"date", "maxTemp", "minTemp", "conditions", "precipitation", "windSpeed", "activities"}

\* C16: an ended searchCities or getCityWeather has either a value or an
\* error, never both.  The value of getCityWeather is complete: the city
\* record, the current conditions and one forecast day with its activities
\* for every day upstream sent.  An error comes with no value.
C16_AllOrNothing ==
    (pc = "done" /\ call.op \in DOMAIN RefService) =>
        \/ /\ outcome.kind = "error"
           /\ DOMAIN outcome = {"kind", "error"}
           /\ DOMAIN outcome.error = {"name", "message", "extensions"}
        \/ /\ outcome.kind = "value"
           /\ DOMAIN outcome = {"kind", "value"}
           /\ response.kind = "resolved"
           /\ call.op = "searchCities" =>
                  \A i \in 1..Len(outcome.value) : DOMAIN outcome.value[i] = RefCityFields
           /\ call.op = "getCityWeather" =>
                  /\ response.hasDaily
                  /\ DOMAIN outcome.value = {"city", "weather"}
                  /\ DOMAIN outcome.value.city = RefCityFields
                  /\ DOMAIN outcome.value.weather = RefWeatherFields
                  /\ Len(outcome.value.weather.forecast) = Len(response.daily.time)
                  /\ \A i \in 1..Len(outcome.value.weather.forecast) :
                         /\ DOMAIN outcome.value.weather.forecast[i] = RefDayFields
                         /\ outcome.value.weather.forecast[i].activities # <<>>

\* getCityWeather ended with a complete response of two forecast days
C16_Witness ==
    /\ pc = "done"
    /\ call.op = "getCityWeather"
    /\ outcome.kind = "value"
    /\ Len(response.daily.time) = 2
    /\ Len(outcome.value.weather.forecast) = 2
    /\ outcome.value.city.id = call.cityId

\* the feature codes of the allow-list
RefAllowList ==
    {"PPLA", "PPLA2", "PPLA3", "PPLA4", "PPLC", "PPL", "PPLF", "PPLG", "PPLL", "PPLR",
     "PPLS", "PPLW"}

\* the city record of a provider result
RefCityRecord(r) ==
    [id |-> NumberToString(r.latitude) \o "," \o NumberToString(r.longitude) \o ":"
                \o r.name \o ":" \o r.country,
     name |-> r.name, country |-> r.country,
     latitude |-> r.latitude, longitude |-> r.longitude]

RECURSIVE RefKept(_)
\* the city records of the allow-listed results, in the order of the results
RefKept(results) ==
    IF results = <<>> THEN <<>>
    ELSE LET rest == RefKept(Tail(results))
         IN  IF Head(results).feature_code \in RefAllowList
             THEN <<RefCityRecord(Head(results))>> \o rest
             ELSE rest

\* C17: on a resolved geocoding request with results, searchCities returns
\* the city records of exactly the results whose feature_code is in the
\* allow-list, in the provider's order, each with the result's own name,
\* country, latitude and longitude and the id
\* "<latitude>,<longitude>:<name>:<country>".
C17_AllowListedInOrder ==
    ( /\ pc = "done"
      /\ call.op = "searchCities"
      /\ response.kind = "resolved"
      /\ response.hasData
      /\ response.hasResults )
    => /\ outcome.kind = "value"
       /\ outcome.value = RefKept(response.results)

\* of an airport followed by the capital only the capital was returned
C17_Witness ==
    /\ pc = "done"
    /\ call.op = "searchCities"
    /\ response.kind = "resolved"
    /\ Len(response.results) = 2
    /\ response.results[1].feature_code = "AIRP"
    /\ response.results[2].feature_code = "PPLC"
    /\ Len(outcome.value) = 1
    /\ outcome.value[1].id = "51.5074,-0.1278:London:United Kingdom"

\* C18: when the body of the geocoding reply has no results field,
\* searchCities returns the empty sequence and raises no error.
C18_NoResultsIsEmpty ==
    ( /\ pc = "done"
      /\ call.op = "searchCities"
      /\ response.kind = "resolved"
      /\ response.hasData
      /\ ~response.hasResults )
    => /\ outcome.kind = "value"
       /\ outcome.value = <<>>
       /\ \A i \in 1..Len(console) : console[i].level # "error"

\* a reply without results ended the search for "aa " with no city
C18_Witness ==
    /\ pc = "done"
    /\ call.op = "searchCities"
    /\ call.input = "aa "
    /\ response = [kind |-> "resolved", hasData |-> TRUE, hasResults |-> FALSE,
                   results |-> <<>>]
    /\ outcome = [kind |-> "value", value |-> <<>>]

\* the forecast of the weather report an ended operation returned
ReturnedForecast ==
    IF call.op = "getWeatherData" THEN outcome.value.forecast
    ELSE outcome.value.weather.forecast

\* the summary of day i of a daily block: index i of each parallel array
RefSummary(daily, i) ==
    [date |-> daily.time[i],
     maxTemp |-> daily.temperature_2m_max[i],
     minTemp |-> daily.temperature_2m_min[i],
     conditions |-> getWeatherCondition(daily.weather_code[i]),
     precipitation |-> daily.precipitation_sum[i],
     windSpeed |-> daily.wind_speed_10m_max[i]]

\* the activity in first place for a day
RefBest(f) ==
    RefActivity(RefProfiles[CHOOSE k \in 1..4 : RefPosition(k, f) = 1], f)

\* C19: on a resolved forecast request getWeatherData returns one
\* DailyForecast for each entry of daily.time, in that order, the i-th built
\* from index i of each parallel array, with activities equal to
\* rankActivitiesForDay(summary of the day, 1): exactly one activity, the
\* best of the day.
C19_OneDayPerDateInOrder ==
    ( /\ pc = "done"
      /\ call.op \in {"getWeatherData", "getCityWeather"}
      /\ response.kind = "resolved"
      /\ response.hasDaily )
    => /\ outcome.kind = "value"
       /\ Len(ReturnedForecast) = Len(response.daily.time)
       /\ \A i \in 1..Len(response.daily.time) :
              LET day == ReturnedForecast[i]
                  summary == RefSummary(response.daily, i)
              IN  /\ \A field \in DOMAIN summary : day[field] = summary[field]
                  /\ day.activities = rankActivitiesForDay(summary, <<1>>)
                  /\ Len(day.activities) = 1
                  /\ day.activities[1] = RefBest(summary)

\* a cold wet day followed by a mild dry day came back in that order
C19_Witness ==
    /\ pc = "done"
    /\ call.op = "getWeatherData"
    /\ response.kind = "resolved"
    /\ response.daily.time = <<"2026-01-02", "2026-01-01">>
    /\ outcome.kind = "value"
    /\ outcome.value.forecast[1].date = "2026-01-02"
    /\ outcome.value.forecast[1].maxTemp = Fx(-2)
    /\ outcome.value.forecast[2].date = "2026-01-01"
    /\ outcome.value.forecast[2].maxTemp = Fx(22)
    /\ Len(outcome.value.forecast[1].activities) = 1
    /\ outcome.value.forecast[1].activities[1].name
           # outcome.value.forecast[2].activities[1].name

\* what a city id decodes to: the numbers its first two coordinate strings
\* start with, and its second and third part
RefDecoded(cityId) ==
    LET parts == Split(cityId, ":")
        cs == Split(parts[1], ",")
    IN  [latitude |-> parseFloat(cs[1]), longitude |-> parseFloat(cs[2]),
         name |-> parts[2], country |-> parts[3]]

\* C20: on success getCityWeather returns a city whose id is the cityId it
\* was given, character for character, and whose name, country, latitude
\* and longitude are the values decoded from that cityId.
C20_CityEchoesId ==
    (pc = "done" /\ call.op = "getCityWeather" /\ outcome.kind = "value") =>
        LET city == outcome.value.city
            decoded == RefDecoded(call.cityId)
        IN  /\ city.id = call.cityId
            /\ city.name = decoded.name
            /\ city.country = decoded.country
            /\ city.latitude = decoded.latitude
            /\ city.longitude = decoded.longitude
            /\ requests[1].params.latitude = decoded.latitude
            /\ requests[1].params.longitude = decoded.longitude

\* an id that is not in the form searchCities writes came back unchanged
C20_Witness ==
    /\ pc = "done"
    /\ call.op = "getCityWeather"
    /\ call.cityId = "9.,.9:N:C"
    /\ outcome.kind = "value"
    /\ outcome.value.city = [id |-> "9.,.9:N:C", name |-> "N", country |-> "C",
                             latitude |-> Num(9), longitude |-> [m |-> 9, k |-> 1]]

-----------------------------------------------------------------------------
(* Properties of the records, of the scoring scenarios and of the table.   *)

\* the id of a city record is the encoding of its other four fields
RefCanonical(city) ==
    city.id = NumberToString(city.latitude) \o "," \o NumberToString(city.longitude)
                  \o ":" \o city.name \o ":" \o city.country

\* C21 as stated: every city record that searchCities or getCityWeather
\* returns has as its id the encoding of its latitude, longitude, name and
\* country.
C21_IdIsCanonicalEncoding ==
    (pc = "done" /\ outcome.kind = "value") =>
        /\ call.op = "searchCities" =>
               \A i \in 1..Len(outcome.value) : RefCanonical(outcome.value[i])
        /\ call.op = "getCityWeather" => RefCanonical(outcome.value.city)

\* twice the average temperature of a forecast, in tenths of a degree
RefTwiceAvg(f) == f.maxTemp + f.minTemp

\* C22: with precipitation <= 1 and 15 <= avgTemp <= 25, whatever the wind
\* speed, rankActivitiesForDay with top = 1 returns outdoor_sightseeing
\* with a suitabilityScore above 80.
C22_MildDryDayIsOutdoor ==
    ( /\ RankCompleted
      /\ call.top = <<1>>
      /\ call.forecast.precipitation <= 10
      /\ RefTwiceAvg(call.forecast) >= 300
      /\ RefTwiceAvg(call.forecast) <= 500 )
    => /\ Len(outcome.value) = 1
       /\ outcome.value[1].name = "outdoor_sightseeing"
       /\ outcome.value[1].suitabilityScore > 80

\* a windy day of 25 degrees with precipitation exactly 1: outdoor
\* sightseeing at 87, ahead of surfing
C22_Witness ==
    /\ RankCompleted
    /\ call.top = <<1>>
    /\ call.forecast.maxTemp = 250
    /\ call.forecast.minTemp = 250
    /\ call.forecast.precipitation = 10
    /\ call.forecast.windSpeed > 200
    /\ outcome.value[1].name = "outdoor_sightseeing"
    /\ outcome.value[1].suitabilityScore = 87

\* C23: with precipitation > 1 and 10 <= avgTemp <= 30, whatever the wind
\* speed, the first activity rankActivitiesForDay returns is
\* indoor_sightseeing with a suitabilityScore above 70.
C23_RainyDayIsIndoor ==
    ( /\ RankCompleted
      /\ outcome.value # <<>>
      /\ call.forecast.precipitation > 10
      /\ RefTwiceAvg(call.forecast) >= 200
      /\ RefTwiceAvg(call.forecast) <= 600 )
    => /\ outcome.value[1].name = "indoor_sightseeing"
       /\ outcome.value[1].suitabilityScore > 70

\* a rainy day of 10 degrees on average, top = 2: indoor sightseeing first
C23_Witness ==
    /\ RankCompleted
    /\ call.top = <<2>>
    /\ call.forecast.maxTemp = 100
    /\ call.forecast.minTemp = 100
    /\ call.forecast.precipitation > 10
    /\ Len(outcome.value) = 2
    /\ outcome.value[1].name = "indoor_sightseeing"
    /\ outcome.value[1].suitabilityScore = 90

RefVocabulary ==
    {<<0, "Clear sky">>, <<1, "Mainly clear">>, <<2, "Partly cloudy">>, <<3, "Overcast">>,
     <<45, "Fog">>, <<48, "Depositing rime fog">>, <<51, "Light drizzle">>,
     <<53, "Moderate drizzle">>, <<55, "Dense drizzle">>, <<56, "Light freezing drizzle">>,
     <<57, "Dense freezing drizzle">>, <<61, "Slight rain">>, <<63, "Moderate rain">>,
     <<65, "Heavy rain">>, <<66, "Light freezing rain">>, <<67, "Heavy freezing rain">>,
     <<71, "Slight snow fall">>, <<73, "Moderate snow fall">>, <<75, "Heavy snow fall">>,
     <<77, "Snow grains">>, <<80, "Slight rain showers">>, <<81, "Moderate rain showers">>,
     <<82, "Violent rain showers">>, <<85, "Slight snow showers">>,
     <<86, "Heavy snow showers">>, <<95, "Thunderstorm">>,
     <<96, "Thunderstorm with slight hail">>, <<99, "Thunderstorm with heavy hail">>}

RECURSIVE RefDecimal(_)
\* a whole number in decimal notation
RefDecimal(n) ==
    IF n < 0 THEN "-" \o RefDecimal(0 - n)
    ELSE IF n < 10 THEN SubSeq("0123456789", n + 1, n + 1)
    ELSE RefDecimal(n \div 10) \o SubSeq("0123456789", (n % 10) + 1, (n % 10) + 1)

\* C26: getWeatherCondition returns the label of the vocabulary for every
\* code the vocabulary holds, 'Clear sky' for code 0 among them, and
\* 'Unknown condition (<code>)' for every other code; it never throws.
C26_LabelOrUnknown ==
    (pc = "done" /\ call.op = "getWeatherCondition") =>
        /\ outcome.kind = "value"
        /\ \A entry \in RefVocabulary : entry[1] = call.code => outcome.value = entry[2]
        /\ (\A entry \in RefVocabulary : entry[1] # call.code) =>
               outcome.value = "Unknown condition (" \o RefDecimal(call.code) \o ")"

\* the code 0 was looked up and gave 'Clear sky'
C26_Witness ==
    /\ pc = "done"
    /\ call = [op |-> "getWeatherCondition", code |-> 0]
    /\ outcome = [kind |-> "value", value |-> "Clear sky"]

\* the orders the four profiles can stand in
RefOrders == {p \in [1..4 -> 1..4] : \A i, j \in 1..4 : p[i] = p[j] => i = j}

\* the table with its profiles in the order p
RefReordered(p) == [i \in 1..4 |-> ACTIVITY_CONFIGS[p[i]]]

\* the scores of a list of activities, in the order of the list
RefScoresOf(list) == [i \in 1..Len(list) |-> list[i].suitabilityScore]

\* C27 as stated: rankActivitiesForDay returns the same sequence of
\* activities whatever the order of the four profiles in the table.
C27_TableOrderIrrelevant ==
    RankCompleted =>
        \A p \in RefOrders :
            rankActivitiesOver(RefReordered(p), call.forecast, call.top) = outcome.value

\* C27, amended: whatever the order of the four profiles in the table, the
\* sequence of scores returned is the same, an activity whose score no
\* other profile shares stands at the same place, and activities with
\* equal scores come in the order their profiles have in the table.
C27_TableOrderBreaksTiesOnly ==
    (RankCompleted /\ previous = NoOutcome) =>
        LET all == rankActivitiesOver(ACTIVITY_CONFIGS, call.forecast, <<4>>)
        IN  \A p \in RefOrders :
                LET table == RefReordered(p)
                    got == rankActivitiesOver(table, call.forecast, call.top)
                    place(name) == CHOOSE i \in 1..4 : table[i].name = name
                IN  /\ RefScoresOf(got) = RefScoresOf(outcome.value)
                    /\ \A i \in 1..Len(got) :
                           Cardinality({j \in 1..4 : all[j].suitabilityScore
                                                         = got[i].suitabilityScore}) = 1
                               => got[i] = outcome.value[i]
                    /\ \A i, j \in 1..Len(got) :
                           (i < j /\ got[i].suitabilityScore = got[j].suitabilityScore)
                               => place(got[i].name) < place(got[j].name)

\* skiing and outdoor sightseeing tie, and with outdoor sightseeing ahead
\* of skiing in the table the call returns another sequence
C27_Witness ==
    /\ RankCompleted
    /\ call.top = <<4>>
    /\ \E i \in 1..3 :
          /\ outcome.value[i].suitabilityScore = outcome.value[i + 1].suitabilityScore
          /\ outcome.value[i].name = "skiing"
          /\ outcome.value[i + 1].name = "outdoor_sightseeing"
    /\ rankActivitiesOver(RefReordered([i \in 1..4 |-> 5 - i]), call.forecast, call.top)
           # outcome.value

\* C28: whatever calls of rankActivitiesForDay were made, the table
\* ACTIVITY_CONFIGS holds the same four profiles with the same values in the
\* same order; the sort reorders only the list of scored activities.
C28_TableUnchanged ==
    /\ configs = ACTIVITY_CONFIGS
    /\ Len(configs) = 4
    /\ \A k \in 1..4 :
          /\ configs[k].name = RefProfiles[k].name
          /\ configs[k].idealTempMin = RefProfiles[k].lo
          /\ configs[k].idealTempMax = RefProfiles[k].hi
          /\ configs[k].rainTolerance = RefProfiles[k].rain
          /\ configs[k].windPreference = RefProfiles[k].wind

\* a call made twice returned its four activities in another order than
\* the table's, and the table is as it was
C28_Witness ==
    /\ RankCompleted
    /\ previous # NoOutcome
    /\ call.top = <<4>>
    /\ outcome.value[1].name = "outdoor_sightseeing"
    /\ outcome.value[4].name = "skiing"
    /\ configs[1].name = "skiing"
    /\ configs[4].name = "outdoor_sightseeing"

\* the three temperature tags
RefTemperatureTags == {"ideal temperature", "too cold", "too warm"}

\* s starts with t
RefStartsWith(s, t) == Len(s) >= Len(t) /\ SubSeq(s, 1, Len(t)) = t

\* C29: every reasoning string holds exactly one of the temperature tags
\* 'ideal temperature', 'too cold', 'too warm', and starts with it; the
\* fallback 'standard conditions' is never returned.
C29_OneTemperatureTagFirst ==
    RankCompleted =>
        \A i \in 1..Len(outcome.value) :
            LET reasoning == outcome.value[i].reasoning
            IN  /\ Cardinality({t \in RefTemperatureTags : Includes(reasoning, t)}) = 1
                /\ \E t \in RefTemperatureTags : RefStartsWith(reasoning, t)
                /\ reasoning # "standard conditions"

\* on a calm dry day of 20 degrees indoor sightseeing has the temperature
\* tag for its whole reasoning
C29_Witness ==
    /\ RankCompleted
    /\ call.forecast.maxTemp = 200
    /\ call.forecast.minTemp = 200
    /\ \E i \in 1..Len(outcome.value) :
          /\ outcome.value[i].name = "indoor_sightseeing"
          /\ outcome.value[i].reasoning = "ideal temperature"

\* the profile of the table with the given name
RefProfileOf(name) == RefProfiles[CHOOSE k \in 1..4 : RefProfiles[k].name = name]

\* C30: with the table of four profiles no suitabilityScore is above 90 and
\* no raw score is above 90 either, so the upper end of the clamp never
\* acts; the lower end does (it is reached by skiing on a warm, rainy,
\* windy day, whose raw score is negative).
C30_NeverAboveNinety ==
    RankCompleted =>
        \A i \in 1..Len(outcome.value) :
            /\ outcome.value[i].suitabilityScore <= 90
            /\ RefRaw(RefProfileOf(outcome.value[i].name), call.forecast) <= 20 * 90

\* skiing on a warm, rainy, windy day: raw score below zero, returned as 0
C30_Witness ==
    /\ RankCompleted
    /\ call.forecast.maxTemp = 300
    /\ call.forecast.precipitation > 10
    /\ call.forecast.windSpeed > 200
    /\ \E i \in 1..Len(outcome.value) :
          /\ outcome.value[i].name = "skiing"
          /\ outcome.value[i].suitabilityScore = 0
          /\ RefRaw(RefProfileOf("skiing"), call.forecast) < 0

\* the outcome of an operation that runs alone, from its call and from how
\* its request settled: the searchCities and getCityWeather of the resolvers
RefAlone(c, r) ==
    IF c.op = "searchCities"
    THEN LET begun == searchCitiesBegin(c.input)
             resumed == IF begun.threw THEN begun ELSE searchCitiesResume(r)
         IN  IF resumed.threw THEN Error(SearchCitiesCatch(resumed.error))
             ELSE Value(resumed.value)
    ELSE LET parsed == parseCityId(c.cityId)
             begun == IF parsed.threw THEN parsed
                      ELSE getWeatherDataBegin(parsed.value.latitude,
                                               parsed.value.longitude)
             resumed == IF begun.threw THEN begun ELSE getWeatherDataResume(r)
         IN  IF resumed.threw THEN Error(GetCityWeatherCatch(resumed.error))
             ELSE Value([city |-> CityOf(c.cityId, parsed.value),
                         weather |-> resumed.value])

====
